---- MODULE Spec2Model ----
(***************************************************************************)
(* Model of the eng-pulse push fan-out: the provider-B (APNs) credential   *)
(* cache, the single-endpoint senders, the two dispatch cycles             *)
(* (send_fcm_notifications, send_apns_notifications in its three copies)   *)
(* and the registration handlers that fill the endpoint store.  Each       *)
(* behaviour observes one dispatcher (unit) with the collection it reads   *)
(* and the handlers that write that collection; the dispatchers share no   *)
(* state.                                                                  *)
(*                                                                         *)
(* Texts (failure reasons, response bodies, secrets) are sequences of      *)
(* one-character strings, so that equality and substring tests are the     *)
(* ones Python performs.  An optional value is None (the empty tuple) or   *)
(* Some(v) (a one-element tuple).                                          *)
(***************************************************************************)
EXTENDS Integers, Sequences, FiniteSets, TLC

\* ------------------------------------------------------------------ bounds
NumEndpoints == 2

\* The instants of the clock the registration handlers read: 1..MaxTime.
MaxTime == 4

\* The threads that call get_apns_credentials concurrently: 1..NumThreads.
NumThreads == 2

\* The get_access_token() calls that return a token in one run of provider-A
\* cycles: 1..NumTokens.
NumTokens == 3

\* The fcm_tokens documents of the collection one send_fcm_notifications
\* cycle is run over: 1..BatchSize.
BatchSize == 3

\* ------------------------------------------------------------ option type
None == <<>>
Some(v) == <<v>>

\* Python truthiness of an optional text: None and "" are falsy.
Truthy(x) == x # None /\ x[1] # <<>>

\* ------------------------------------------------------------------ texts
UNREGISTERED == <<"U", "N", "R", "E", "G", "I", "S", "T", "E", "R", "E", "D">>
INVALID_ARGUMENT == <<"I", "N", "V", "A", "L", "I", "D", "_", "A", "R", "G", "U", "M", "E", "N", "T">>
UNAVAILABLE == <<"U", "N", "A", "V", "A", "I", "L", "A", "B", "L", "E">>
MessagingInvalidRegistrationToken == <<"m", "e", "s", "s", "a", "g", "i", "n", "g", "/", "i", "n", "v", "a", "l", "i", "d", "-", "r", "e", "g", "i", "s", "t", "r", "a", "t", "i", "o", "n", "-", "t", "o", "k", "e", "n">>
MessagingInternalError == <<"m", "e", "s", "s", "a", "g", "i", "n", "g", "/", "i", "n", "t", "e", "r", "n", "a", "l", "-", "e", "r", "r", "o", "r">>
BadDeviceToken == <<"B", "a", "d", "D", "e", "v", "i", "c", "e", "T", "o", "k", "e", "n">>
Unregistered == <<"U", "n", "r", "e", "g", "i", "s", "t", "e", "r", "e", "d">>
ExpiredToken == <<"E", "x", "p", "i", "r", "e", "d", "T", "o", "k", "e", "n">>
InternalServerError == <<"I", "n", "t", "e", "r", "n", "a", "l", "S", "e", "r", "v", "e", "r", "E", "r", "r", "o", "r">>
NoApnsCredentials == <<"N", "o", " ", "A", "P", "N", "s", " ", "c", "r", "e", "d", "e", "n", "t", "i", "a", "l", "s">>
EmptyText == <<>>

\* Texts of the exceptions the model raises (str(e) in the code).
ConnectErrorText == <<"C", "o", "n", "n", "e", "c", "t", "E", "r", "r", "o", "r">>
JwtErrorText == <<"I", "n", "v", "a", "l", "i", "d", "K", "e", "y">>
AttributeErrorText == <<"n", "o", " ", "a", "t", "t", "r", "i", "b", "u", "t", "e", " ", "g", "e", "t">>

\* s contains sub as a contiguous substring (Python: sub in s).
Contains(s, sub) ==
    \E k \in 0..(Len(s) - Len(sub)) : SubSeq(s, k + 1, k + Len(sub)) = sub

\* Decimal text of a status code, a natural number below 1000 (Python: f"{n}").
Digit(d) == CASE d = 0 -> "0" [] d = 1 -> "1" [] d = 2 -> "2" [] d = 3 -> "3"
              [] d = 4 -> "4" [] d = 5 -> "5" [] d = 6 -> "6" [] d = 7 -> "7"
              [] d = 8 -> "8" [] OTHER -> "9"

\* f"HTTP {response.status_code}"
HttpReason(status) ==
    <<"H", "T", "T", "P", " ">>
        \o (IF status < 10 THEN <<Digit(status)>>
            ELSE IF status < 100 THEN <<Digit(status \div 10), Digit(status % 10)>>
            ELSE <<Digit(status \div 100), Digit((status \div 10) % 10),
                   Digit(status % 10)>>)

\* ---------------------------------------------------------- secret store
\* Secret payloads are byte sequences; decode("UTF-8") maps each byte to its
\* character and strip() removes leading and trailing white space.
Decode(bytes) ==
    [k \in 1..Len(bytes) |->
        CASE bytes[k] = 10 -> "\n" [] bytes[k] = 32 -> " " [] bytes[k] = 49 -> "1"
          [] bytes[k] = 75 -> "K" [] bytes[k] = 80 -> "P" [] bytes[k] = 84 -> "T"
          [] OTHER -> "?"]

IsSpace(ch) == ch \in {" ", "\n", "\t", "\r"}

\* The number of white-space characters s starts with, and ends with.
LeadingSpaces(s) ==
    CHOOSE n \in 0..Len(s) :
        /\ \A k \in 1..n : IsSpace(s[k])
        /\ n = Len(s) \/ ~IsSpace(s[n + 1])

TrailingSpaces(s) ==
    CHOOSE n \in 0..Len(s) :
        /\ \A k \in 1..n : IsSpace(s[Len(s) + 1 - k])
        /\ n = Len(s) \/ ~IsSpace(s[Len(s) - n])

\* s from its first to its last character that is not white space.
Strip(s) ==
    IF LeadingSpaces(s) = Len(s) THEN <<>>
    ELSE SubSeq(s, LeadingSpaces(s) + 1, Len(s) - TrailingSpaces(s))

\* Payloads the secret store can hold.  The key id: "K1" with a trailing
\* newline, or a blank one; the key is "P" and the team id " T1".
KeyIdPayloads == {<<75, 49, 10>>, <<10>>}

\* Where a load fails: 0: nowhere; 1, 2, 3: the first, second or third
\* access_secret_version call raises; 4: SecretManagerServiceClient() raises,
\* before any fetch is started.
FailPoints == 0..4

\* The number of access_secret_version calls a load failing at failAt starts.
FetchesStarted(failAt) ==
    CASE failAt = 0 -> 3
      [] failAt = 4 -> 0
      [] OTHER -> failAt

\* ------------------------------------------------------ credential cache
Copies == {"shared", "notifier", "apns_notifier"}

NoCreds == [key |-> None, key_id |-> None, team_id |-> None]

\* The three module globals after the fetches that completed before the
\* failing one (failAt = 0: all three completed).  Each assignment happens as
\* soon as its fetch returns.  The three copies of get_apns_credentials do
\* this in the same way.
Fetched(c, failAt, rawKeyId) ==
    LET c1 == [c EXCEPT !.key = Some(Decode(<<80>>))]
        c2 == [c1 EXCEPT !.key_id = Some(Strip(Decode(rawKeyId)))]
        c3 == [c2 EXCEPT !.team_id = Some(Strip(Decode(<<32, 84, 49>>)))]
    IN CASE failAt \in {1, 4} -> c
         [] failAt = 2 -> c1
         [] failAt = 3 -> c2
         [] OTHER -> c3

\* A call's outcome: the globals afterwards, the returned triple, whether the
\* call raised, and the number of secret fetches it started.
CredResult(c, ret, raised, nfetch) ==
    [cache |-> c, ret |-> ret, raised |-> raised, nfetch |-> nfetch]

\* Variant of the shared copy without the cache test: every call fetches.
get_apns_credentials_shared_NoCache(c, failAt, rawKeyId) ==
    CredResult(Fetched(c, failAt, rawKeyId),
               IF failAt = 0 THEN Fetched(c, 0, rawKeyId) ELSE NoCreds,
               FALSE,
               FetchesStarted(failAt))

\* shared/apns_utils.py: the cache test reads _apns_key only; an exception in
\* any fetch is caught and (None, None, None) returned.
get_apns_credentials_shared(c, failAt, rawKeyId) ==
    IF c.key # None
    THEN CredResult(c, c, FALSE, 0)
    ELSE CredResult(Fetched(c, failAt, rawKeyId),
                    IF failAt = 0 THEN Fetched(c, 0, rawKeyId) ELSE NoCreds,
                    FALSE,
                    FetchesStarted(failAt))

\* notifier/main.py: the same code as the shared copy.
get_apns_credentials_notifier(c, failAt, rawKeyId) ==
    IF c.key # None
    THEN CredResult(c, c, FALSE, 0)
    ELSE CredResult(Fetched(c, failAt, rawKeyId),
                    IF failAt = 0 THEN Fetched(c, 0, rawKeyId) ELSE NoCreds,
                    FALSE,
                    FetchesStarted(failAt))

\* apns-notifier/main.py: no try/except, a failing fetch raises to the caller.
get_apns_credentials_apns_notifier(c, failAt, rawKeyId) ==
    IF c.key # None
    THEN CredResult(c, c, FALSE, 0)
    ELSE CredResult(Fetched(c, failAt, rawKeyId),
                    IF failAt = 0 THEN Fetched(c, 0, rawKeyId) ELSE NoCreds,
                    failAt # 0,
                    FetchesStarted(failAt))

get_apns_credentials(copy, c, failAt, rawKeyId) ==
    CASE copy = "shared" -> get_apns_credentials_shared(c, failAt, rawKeyId)
      [] copy = "notifier" -> get_apns_credentials_notifier(c, failAt, rawKeyId)
      [] OTHER -> get_apns_credentials_apns_notifier(c, failAt, rawKeyId)

\* reset_apns_credentials (shared copy only)
reset_apns_credentials(c) == NoCreds

\* "all([auth_key, key_id, team_id])" of a get_apns_credentials outcome: the
\* call returned three truthy values.
CredsAvailable(cr) ==
    /\ ~cr.raised
    /\ Truthy(cr.ret.key) /\ Truthy(cr.ret.key_id) /\ Truthy(cr.ret.team_id)

\* jwt.encode: a token carrying the issuer claim and the key id header.
JwtEncode(creds) == Some([iss |-> creds.team_id, kid |-> creds.key_id])

\* A create_apns_jwt outcome: the token or None, whether the call raised, the
\* text of the exception, and the get_apns_credentials outcome inside it.
JwtResult(jwt, raised, text, cr) ==
    [jwt |-> jwt, raised |-> raised, text |-> text, cred |-> cr]

\* The body of create_apns_jwt after its get_apns_credentials call returned
\* cr.  shared/apns_utils.py: None unless all three values are truthy;
\* jwt.encode may raise (jwtOk = FALSE) on a key it cannot load.
\* notifier/main.py has the same body.
JwtFromCredsShared(cr, jwtOk) ==
    IF ~(Truthy(cr.ret.key) /\ Truthy(cr.ret.key_id) /\ Truthy(cr.ret.team_id))
    THEN JwtResult(None, FALSE, EmptyText, cr)
    ELSE IF jwtOk THEN JwtResult(JwtEncode(cr.ret), FALSE, EmptyText, cr)
         ELSE JwtResult(None, TRUE, JwtErrorText, cr)

\* apns-notifier/main.py: no availability test; the exception of
\* get_apns_credentials propagates and jwt.encode is given whatever the
\* globals hold.
JwtFromCredsApnsNotifier(cr, jwtOk) ==
    IF cr.raised
    THEN JwtResult(None, TRUE,
                   <<"P", "e", "r", "m", "i", "s", "s", "i", "o", "n",
                     "D", "e", "n", "i", "e", "d">>, cr)
    ELSE IF jwtOk THEN JwtResult(JwtEncode(cr.ret), FALSE, EmptyText, cr)
         ELSE JwtResult(None, TRUE, JwtErrorText, cr)

create_apns_jwt_shared(c, failAt, rawKeyId, jwtOk) ==
    JwtFromCredsShared(get_apns_credentials_shared(c, failAt, rawKeyId), jwtOk)

create_apns_jwt_notifier(c, failAt, rawKeyId, jwtOk) ==
    JwtFromCredsShared(get_apns_credentials_notifier(c, failAt, rawKeyId), jwtOk)

create_apns_jwt_apns_notifier(c, failAt, rawKeyId, jwtOk) ==
    JwtFromCredsApnsNotifier(
        get_apns_credentials_apns_notifier(c, failAt, rawKeyId), jwtOk)

create_apns_jwt(copy, c, failAt, rawKeyId, jwtOk) ==
    CASE copy = "shared" -> create_apns_jwt_shared(c, failAt, rawKeyId, jwtOk)
      [] copy = "notifier" -> create_apns_jwt_notifier(c, failAt, rawKeyId, jwtOk)
      [] OTHER -> create_apns_jwt_apns_notifier(c, failAt, rawKeyId, jwtOk)

\* ------------------------------------------------- single-endpoint senders
\* What the provider does with one request: a network-level exception, or a
\* response with a status and a body.  Body kinds: "empty" (no content),
\* "reason" (a JSON object with a reason field), "object" (a JSON object
\* without one), "array" (JSON that is not an object), "invalid" (not JSON).
Http(net, status, body, reason) ==
    [net |-> net, status |-> status, body |-> body, reason |-> reason]

ApnsOutcomes ==
    { Http("error", 0, "empty", EmptyText),
      Http("ok", 200, "empty", EmptyText),
      Http("ok", 400, "reason", BadDeviceToken),
      Http("ok", 410, "reason", Unregistered),
      Http("ok", 403, "reason", ExpiredToken),
      Http("ok", 500, "reason", InternalServerError),
      Http("ok", 500, "empty", EmptyText),
      Http("ok", 502, "invalid", EmptyText),
      Http("ok", 400, "object", EmptyText),
      Http("ok", 400, "array", EmptyText) }

\* A sender's outcome: (success, reason), whether a request was posted to the
\* provider, and the create_apns_jwt outcome inside it.
SendResult(success, reason, posted, j) ==
    [success |-> success, reason |-> reason, posted |-> posted, jwt |-> j]

\* The reason of a response whose status is not 200.  shared/apns_utils.py:
\* a body that is not JSON falls back to "HTTP {status}"; a JSON body that is
\* not an object makes .get raise, which the outer except reports.
FailureReasonShared(h) ==
    CASE h.body = "empty" -> HttpReason(h.status)
      [] h.body = "reason" -> h.reason
      [] h.body = "object" -> HttpReason(h.status)
      [] h.body = "invalid" -> HttpReason(h.status)
      [] OTHER -> AttributeErrorText

\* notifier/main.py: response.json() is not guarded, its ValueError reaches
\* the outer except.  apns-notifier/main.py has the same code.
FailureReasonNotifier(h) ==
    CASE h.body = "empty" -> HttpReason(h.status)
      [] h.body = "reason" -> h.reason
      [] h.body = "object" -> HttpReason(h.status)
      [] h.body = "invalid" ->
           <<"E", "x", "p", "e", "c", "t", "i", "n", "g", " ", "v", "a", "l", "u", "e">>
      [] OTHER -> AttributeErrorText

\* The body of send_apns_notification after its create_apns_jwt call gave j.
SendWithJwtShared(j, h) ==
    IF j.raised THEN SendResult(FALSE, j.text, FALSE, j)
    ELSE IF j.jwt = None THEN SendResult(FALSE, NoApnsCredentials, FALSE, j)
    ELSE IF h.net = "error" THEN SendResult(FALSE, ConnectErrorText, TRUE, j)
    ELSE IF h.status = 200 THEN SendResult(TRUE, EmptyText, TRUE, j)
    ELSE SendResult(FALSE, FailureReasonShared(h), TRUE, j)

SendWithJwtNotifier(j, h) ==
    IF j.raised THEN SendResult(FALSE, j.text, FALSE, j)
    ELSE IF j.jwt = None THEN SendResult(FALSE, NoApnsCredentials, FALSE, j)
    ELSE IF h.net = "error" THEN SendResult(FALSE, ConnectErrorText, TRUE, j)
    ELSE IF h.status = 200 THEN SendResult(TRUE, EmptyText, TRUE, j)
    ELSE SendResult(FALSE, FailureReasonNotifier(h), TRUE, j)

\* apns-notifier/main.py: no test of the token; a raising create_apns_jwt
\* reaches the outer except.
SendWithJwtApnsNotifier(j, h) ==
    IF j.raised THEN SendResult(FALSE, j.text, FALSE, j)
    ELSE IF h.net = "error" THEN SendResult(FALSE, ConnectErrorText, TRUE, j)
    ELSE IF h.status = 200 THEN SendResult(TRUE, EmptyText, TRUE, j)
    ELSE SendResult(FALSE, FailureReasonNotifier(h), TRUE, j)

send_apns_notification(copy, c, failAt, rawKeyId, jwtOk, h) ==
    CASE copy = "shared" ->
           SendWithJwtShared(create_apns_jwt_shared(c, failAt, rawKeyId, jwtOk), h)
      [] copy = "notifier" ->
           SendWithJwtNotifier(create_apns_jwt_notifier(c, failAt, rawKeyId, jwtOk), h)
      [] OTHER ->
           SendWithJwtApnsNotifier(
               create_apns_jwt_apns_notifier(c, failAt, rawKeyId, jwtOk), h)

\* Provider A: what requests.post does: a network-level exception, or a
\* response with a status and a text.
FcmHttp(net, status, text) == [net |-> net, status |-> status, text |-> text]

FcmErrorBody(status) == <<"{", "\"", "s", "t", "a", "t", "u", "s", "\"", ":", "\"">>
                        \o status \o <<"\"", "}">>

FcmOutcomes ==
    { FcmHttp("error", 0, EmptyText),
      FcmHttp("ok", 200, <<"{", "}">>),
      FcmHttp("ok", 404, FcmErrorBody(UNREGISTERED)),
      FcmHttp("ok", 400, FcmErrorBody(INVALID_ARGUMENT)),
      FcmHttp("ok", 503, FcmErrorBody(UNAVAILABLE)),
      FcmHttp("ok", 400, MessagingInvalidRegistrationToken),
      FcmHttp("ok", 500, MessagingInternalError) }

\* notifier/main.py send_fcm_notification_http: requests.post is not guarded,
\* so a network-level exception is raised to the caller.
send_fcm_notification_http(h) ==
    IF h.net = "error"
    THEN [raised |-> TRUE, success |-> FALSE, text |-> ConnectErrorText]
    ELSE [raised |-> FALSE, success |-> (h.status = 200), text |-> h.text]

\* Variants of provider A's permanent-failure test: a single substring and
\* a lenient lower-case match.
IsPermanentFcm_OnlyUnregistered(response_text) ==
    Contains(response_text, UNREGISTERED)

IsPermanentFcm_AnyInvalid(response_text) ==
    \/ Contains(response_text, UNREGISTERED)
    \/ Contains(response_text, INVALID_ARGUMENT)
    \/ Contains(response_text, <<"i", "n", "v", "a", "l", "i", "d">>)

\* The dispatchers' tests for a permanent failure.
IsPermanentApns(reason) == reason \in {BadDeviceToken, Unregistered, ExpiredToken}

IsPermanentFcm(response_text) ==
    Contains(response_text, UNREGISTERED) \/ Contains(response_text, INVALID_ARGUMENT)

\* ------------------------------------------------------------------- state
VARIABLES
    unit,       \* the dispatcher observed: "fcm" (send_fcm_notifications) or
                \* the copy of send_apns_notifications, with its own globals
    cache,      \* _apns_key, _apns_key_id, _apns_team_id of that copy
    store,      \* the record store: collection -> document id -> record
    cyc,        \* the dispatch cycle in progress or last completed
    lastCall,   \* the last credential operation of this process
    caller      \* the program calling into the functions above, and where it
                \* stands: none (the functions are called in any order),
                \* send_summary_email, or a client of the HTTP handlers

vars == <<unit, cache, store, cyc, lastCall, caller>>

Units == {"fcm"} \cup Copies

Ids == 1..NumEndpoints
Collections == {"fcm_tokens", "apns_tokens"}

Absent == [exists |-> FALSE, active |-> FALSE, token |-> None]

\* set(fields, merge=True) of the registration handlers
Registered(rec, id) == [rec EXCEPT !.exists = TRUE, !.active = TRUE, !.token = Some(id)]

\* Variant that writes the flag of a registration.
Unregistered__Reactivates(rec) == [rec EXCEPT !.exists = TRUE, !.active = TRUE]

\* set({"active": False, "unregistered_at": ...}, merge=True)
Unregistered_(rec) == [rec EXCEPT !.exists = TRUE, !.active = FALSE]

\* update({"active": False})
Deactivated(rec) == [rec EXCEPT !.active = FALSE]

\* Ascending sequence of a finite set of document ids: position k holds the
\* id with k - 1 smaller ids in the set.
SortedSeq(S) ==
    [k \in 1..Cardinality(S) |->
        CHOOSE x \in S : Cardinality({y \in S : y < x}) = k - 1]

\* Variant without the where clause: every document of the collection.
ListActive_All(st, coll) ==
    LET ids == SortedSeq({id \in DOMAIN st[coll] : st[coll][id].exists})
    IN [k \in 1..Len(ids) |-> [id |-> ids[k], token |-> st[coll][ids[k]].token]]

\* collection(coll).where("active", "==", True).stream(): snapshots of the
\* matching documents, in document-id order.
ListActive(st, coll) ==
    LET ids == SortedSeq({id \in DOMAIN st[coll] :
                             st[coll][id].exists /\ st[coll][id].active})
    IN [k \in 1..Len(ids) |-> [id |-> ids[k], token |-> st[coll][ids[k]].token]]

\* The tokens / doc_ids lists send_fcm_notifications builds: documents with a
\* truthy token field.
HasToken(doc) == doc.token # None

NoCall == [op |-> "none", before |-> NoCreds, failAt |-> 0, ret |-> NoCreds,
           raised |-> FALSE, nfetch |-> 0, jwt |-> None, jwtRaised |-> FALSE]

\* token is the access_token local of send_fcm_notifications, named by the
\* get_access_token() call that returned it; exchanges counts the
\* get_access_token() calls of the cycle and issued those that returned in
\* this process so far: every step that starts or clears a cycle carries it
\* over.
NewCycle(provider) ==
    [provider |-> provider, pc |-> "list", auth |-> "none", listing |-> "none",
     docs |-> <<>>, i |-> 0, success_count |-> 0, result |-> -1,
     raised |-> FALSE, log |-> <<>>, updates |-> <<>>, failed |-> <<>>,
     token |-> None, exchanges |-> 0, issued |-> 0]

IdleCycle == [NewCycle("none") EXCEPT !.pc = "idle"]

\* return n
Return(c, n) == [c EXCEPT !.pc = "done", !.result = n]

\* Variant without the outer except: the exception leaves the dispatcher.
OnException_Propagate(c) == [c EXCEPT !.pc = "done", !.raised = TRUE]

\* The dispatchers' outer "except Exception: ... return 0".
OnException(c) == [c EXCEPT !.pc = "done", !.result = 0]

\* Variant that loses the increment.
Counted_NoIncrement(c) == c

\* success_count += 1
Counted(c) == [c EXCEPT !.success_count = c.success_count + 1]

\* The for loop moves to the next document, or the function returns the count.
Advance(c) ==
    IF c.i + 1 > Len(c.docs)
    THEN Return(c, c.success_count)
    ELSE [c EXCEPT !.i = c.i + 1, !.pc = "send"]

LogEntry(id, outcome, reason, cred, posted) ==
    [id |-> id, outcome |-> outcome, reason |-> reason, cred |-> cred,
     posted |-> posted]

Logged(c, e) == [c EXCEPT !.log = Append(c.log, e)]

\* When a dispatch cycle of the provider may start: in any order when no
\* calling program is followed, otherwise when the calling program has reached
\* its call of the dispatcher (caller.pc names the call: "A" or "B").
MayStart(provider) ==
    IF caller.kind = "none"
    THEN /\ cyc.pc \in {"idle", "done"}
         /\ IF provider = "A" THEN unit = "fcm" ELSE unit \in Copies
    ELSE /\ cyc.pc = "idle"
         /\ caller.pc = provider

Init ==
    /\ unit \in Units
    /\ cache = NoCreds
    /\ store = [coll \in Collections |-> [id \in Ids |-> Absent]]
    /\ cyc = IdleCycle
    /\ lastCall = NoCall
    /\ caller = [kind |-> "none", pc |-> "none"]

\* ------------------------------------------------- registration handlers
\* fcm-tokens/main.py register_token (a valid POST; storeOk: the write works)
register_token(id, storeOk) ==
    /\ unit = "fcm"
    /\ storeOk
    /\ store' = [store EXCEPT !["fcm_tokens"][id] = Registered(@, id)]
    /\ UNCHANGED <<caller, unit, cache, cyc, lastCall>>

\* fcm-tokens/main.py unregister_token
unregister_token(id, storeOk) ==
    /\ unit = "fcm"
    /\ storeOk
    /\ store' = [store EXCEPT !["fcm_tokens"][id] = Unregistered_(@)]
    /\ UNCHANGED <<caller, unit, cache, cyc, lastCall>>

\* apns-notifier/main.py register_apns_token
register_apns_token(id, storeOk) ==
    /\ unit \in Copies
    /\ storeOk
    /\ store' = [store EXCEPT !["apns_tokens"][id] = Registered(@, id)]
    /\ UNCHANGED <<caller, unit, cache, cyc, lastCall>>

\* ------------------------------------------------- credential operations
\* A direct call of create_apns_jwt between two dispatch cycles.
\* The globals and the call record after a create_apns_jwt call that gave j.
CredentialsUsed(failAt, j) ==
    /\ cache' = j.cred.cache
    /\ lastCall' = [op |-> "get", before |-> cache, failAt |-> failAt,
                    ret |-> j.cred.ret, raised |-> j.cred.raised,
                    nfetch |-> j.cred.nfetch, jwt |-> j.jwt,
                    jwtRaised |-> j.raised]

call_create_apns_jwt(failAt, rawKeyId, jwtOk) ==
    /\ unit \in Copies
    /\ cyc.pc \in {"idle", "done"}
    /\ CredentialsUsed(failAt, create_apns_jwt(unit, cache, failAt, rawKeyId, jwtOk))
    /\ UNCHANGED <<caller, unit, store, cyc>>

call_reset_apns_credentials ==
    /\ unit = "shared"
    /\ cyc.pc \in {"idle", "done"}
    /\ cache' = reset_apns_credentials(cache)
    /\ lastCall' = [NoCall EXCEPT !.op = "reset", !.before = cache]
    /\ UNCHANGED <<caller, unit, store, cyc>>

\* ------------------------------------------ provider A dispatch (notifier)
\* Variant that keeps the token of an earlier cycle in a module global and
\* exchanges only when it has none.
send_fcm_notifications_begin_KeepsOldToken(authOk) ==
    /\ MayStart("A")
    /\ authOk => cyc.issued < NumTokens
    /\ cyc' = IF cyc.issued > 0
              THEN [NewCycle("A") EXCEPT !.auth = "ok", !.issued = cyc.issued,
                                         !.token = Some(cyc.issued)]
              ELSE IF authOk
              THEN [NewCycle("A") EXCEPT !.auth = "ok", !.exchanges = 1,
                                         !.issued = cyc.issued + 1,
                                         !.token = Some(cyc.issued + 1)]
              ELSE OnException([NewCycle("A") EXCEPT !.auth = "failed",
                                                     !.exchanges = 1,
                                                     !.issued = cyc.issued])
    /\ UNCHANGED <<caller, unit, cache, store, lastCall>>

\* send_fcm_notifications up to get_access_token(), the first statement of
\* its try block: the call refreshes new default credentials and returns
\* their token, or raises (authOk = FALSE) and the outer except returns 0.
send_fcm_notifications_begin(authOk) ==
    /\ MayStart("A")
    /\ authOk => cyc.issued < NumTokens
    /\ cyc' = IF authOk
              THEN [NewCycle("A") EXCEPT !.auth = "ok", !.exchanges = 1,
                                         !.issued = cyc.issued + 1,
                                         !.token = Some(cyc.issued + 1)]
              ELSE OnException([NewCycle("A") EXCEPT !.auth = "failed",
                                                     !.exchanges = 1,
                                                     !.issued = cyc.issued])
    /\ UNCHANGED <<caller, unit, cache, store, lastCall>>

\* Variant that repeats a failed listing query instead of returning.
send_fcm_notifications_list_RetriesForever(listOk) ==
    /\ cyc.provider = "A" /\ cyc.pc = "list"
    /\ cyc' = IF ~listOk
              THEN [cyc EXCEPT !.listing = IF cyc.listing = "none" THEN "failed"
                                           ELSE "none"]
              ELSE LET tokens == SelectSeq(ListActive(store, "fcm_tokens"), HasToken)
                       c == [cyc EXCEPT !.listing = "ok", !.docs = tokens]
                   IN IF tokens = <<>> THEN Return(c, 0) ELSE Advance(c)
    /\ UNCHANGED <<caller, unit, cache, store, lastCall>>

\* The listing query and the tokens / doc_ids lists.
send_fcm_notifications_list(listOk) ==
    /\ cyc.provider = "A" /\ cyc.pc = "list"
    /\ cyc' = IF ~listOk
              THEN OnException([cyc EXCEPT !.listing = "failed"])
              ELSE LET tokens == SelectSeq(ListActive(store, "fcm_tokens"), HasToken)
                       c == [cyc EXCEPT !.listing = "ok", !.docs = tokens]
                   IN IF tokens = <<>> THEN Return(c, 0) ELSE Advance(c)
    /\ UNCHANGED <<caller, unit, cache, store, lastCall>>

\* Variant that sends again to an endpoint whose send failed for a reason
\* outside the permanent set.
FcmSent_RetriesTransient(c, id, r) ==
    LET Entry(outcome) == LogEntry(id, outcome, r.text, TRUE, TRUE)
                              @@ [token |-> c.token]
    IN IF r.raised
       THEN OnException(Logged(c, Entry("raise")))
       ELSE IF r.success
       THEN Advance(Counted(Logged(c, Entry("ok"))))
       ELSE IF IsPermanentFcm(r.text)
       THEN [Logged(c, Entry("fail")) EXCEPT !.pc = "deact"]
       ELSE Logged(c, Entry("fail"))

\* One iteration of the loop up to the deactivation write.
\* The loop body of send_fcm_notifications after the sender gave r for the
\* document id: an exception leaves the loop through the outer except.
FcmSent(c, id, r) ==
    LET Entry(outcome) == LogEntry(id, outcome, r.text, TRUE, TRUE)
                              @@ [token |-> c.token]
    IN IF r.raised
       THEN OnException(Logged(c, Entry("raise")))
       ELSE IF r.success
       THEN Advance(Counted(Logged(c, Entry("ok"))))
       ELSE IF IsPermanentFcm(r.text)
       THEN [Logged(c, Entry("fail")) EXCEPT !.pc = "deact"]
       ELSE Advance(Logged(c, Entry("fail")))

send_fcm_notifications_send(h) ==
    /\ cyc.provider = "A" /\ cyc.pc = "send"
    /\ cyc' = FcmSent(cyc, cyc.docs[cyc.i].id, send_fcm_notification_http(h))
    /\ UNCHANGED <<caller, unit, cache, store, lastCall>>

\* The cycle after the update of document id was issued: the write is
\* recorded, with the ids whose write raised; the inner except only logs.
WriteIssued(c, id, storeOk) ==
    [c EXCEPT !.updates = Append(c.updates, id),
              !.failed = IF storeOk THEN c.failed ELSE Append(c.failed, id)]

\* document(doc_ids[i]).update({"active": False}); a raising write is caught.
send_fcm_notifications_deactivate(storeOk) ==
    /\ cyc.provider = "A" /\ cyc.pc = "deact"
    /\ LET id == cyc.docs[cyc.i].id
       IN /\ store' = IF storeOk
                      THEN [store EXCEPT !["fcm_tokens"][id] = Deactivated(@)]
                      ELSE store
          /\ cyc' = Advance(WriteIssued(cyc, id, storeOk))
    /\ UNCHANGED <<caller, unit, cache, lastCall>>

\* ------------------------------------ provider B dispatch (three copies)
\* Variant with the listing query outside the try block.
send_apns_notifications_list_OutsideTry(listOk) ==
    /\ MayStart("B")
    /\ cyc' = IF ~listOk
              THEN OnException_Propagate([NewCycle("B") EXCEPT !.listing = "failed",
                                                               !.issued = cyc.issued])
              ELSE LET docs == ListActive(store, "apns_tokens")
                       c == [NewCycle("B") EXCEPT !.listing = "ok", !.docs = docs,
                                                  !.issued = cyc.issued]
                   IN IF docs = <<>> THEN Return(c, 0) ELSE Advance(c)
    /\ lastCall' = NoCall
    /\ UNCHANGED <<caller, unit, cache, store>>

\* send_apns_notifications up to "if not docs".
send_apns_notifications_list(listOk) ==
    /\ MayStart("B")
    /\ cyc' = IF ~listOk
              THEN OnException([NewCycle("B") EXCEPT !.listing = "failed",
                                                     !.issued = cyc.issued])
              ELSE LET docs == ListActive(store, "apns_tokens")
                       c == [NewCycle("B") EXCEPT !.listing = "ok", !.docs = docs,
                                                  !.issued = cyc.issued]
                   IN IF docs = <<>> THEN Return(c, 0) ELSE Advance(c)
    /\ lastCall' = NoCall
    /\ UNCHANGED <<caller, unit, cache, store>>

\* Variant that retires an endpoint once a notification reached it.
ApnsSent_RetiresDelivered(c, id, r) ==
    IF r.success
    THEN [Counted(Logged(c,
            LogEntry(id, "ok", r.reason, CredsAvailable(r.jwt.cred), r.posted)))
          EXCEPT !.pc = "deact"]
    ELSE Advance(Logged(c,
            LogEntry(id, "fail", r.reason, CredsAvailable(r.jwt.cred), r.posted)))

\* One iteration of the loop up to the deactivation write.
\* The loop body of send_apns_notifications after the sender gave r for the
\* document id.
ApnsSent(c, id, r) ==
    IF r.success
    THEN Advance(Counted(Logged(c,
            LogEntry(id, "ok", r.reason, CredsAvailable(r.jwt.cred), r.posted))))
    ELSE IF IsPermanentApns(r.reason)
    THEN [Logged(c,
            LogEntry(id, "fail", r.reason, CredsAvailable(r.jwt.cred), r.posted))
          EXCEPT !.pc = "deact"]
    ELSE Advance(Logged(c,
            LogEntry(id, "fail", r.reason, CredsAvailable(r.jwt.cred), r.posted)))

send_apns_notifications_send(failAt, rawKeyId, jwtOk, h) ==
    /\ cyc.provider = "B" /\ cyc.pc = "send"
    /\ IF cyc.docs[cyc.i].token = None
       THEN /\ cyc' = Advance(cyc)
            /\ UNCHANGED <<cache, lastCall>>
       ELSE \E r \in {send_apns_notification(unit, cache, failAt, rawKeyId, jwtOk, h)} :
               /\ CredentialsUsed(failAt, r.jwt)
               /\ cyc' = ApnsSent(cyc, cyc.docs[cyc.i].id, r)
    /\ UNCHANGED <<caller, unit, store>>

\* Variant without the inner try: a raising write reaches the outer except.
send_apns_notifications_deactivate_Uncaught(storeOk) ==
    /\ cyc.provider = "B" /\ cyc.pc = "deact"
    /\ LET id == cyc.docs[cyc.i].id
       IN /\ store' = IF storeOk
                      THEN [store EXCEPT !["apns_tokens"][id] = Deactivated(@)]
                      ELSE store
          /\ cyc' = IF storeOk
                    THEN Advance(WriteIssued(cyc, id, storeOk))
                    ELSE OnException(WriteIssued(cyc, id, storeOk))
    /\ UNCHANGED <<caller, unit, cache, lastCall>>

\* doc.reference.update({"active": False}); a raising write is caught.
send_apns_notifications_deactivate(storeOk) ==
    /\ cyc.provider = "B" /\ cyc.pc = "deact"
    /\ LET id == cyc.docs[cyc.i].id
       IN /\ store' = IF storeOk
                      THEN [store EXCEPT !["apns_tokens"][id] = Deactivated(@)]
                      ELSE store
          /\ cyc' = Advance(WriteIssued(cyc, id, storeOk))
    /\ UNCHANGED <<caller, unit, cache, lastCall>>

Next ==
    \/ \E id \in Ids, ok \in BOOLEAN : register_token(id, ok)
    \/ \E id \in Ids, ok \in BOOLEAN : unregister_token(id, ok)
    \/ \E id \in Ids, ok \in BOOLEAN : register_apns_token(id, ok)
    \/ \E f \in FailPoints, raw \in KeyIdPayloads, jwtOk \in BOOLEAN :
          call_create_apns_jwt(f, raw, jwtOk)
    \/ call_reset_apns_credentials
    \/ \E ok \in BOOLEAN : send_fcm_notifications_begin(ok)
    \/ \E ok \in BOOLEAN : send_fcm_notifications_list(ok)
    \/ \E h \in FcmOutcomes : send_fcm_notifications_send(h)
    \/ \E ok \in BOOLEAN : send_fcm_notifications_deactivate(ok)
    \/ \E ok \in BOOLEAN : send_apns_notifications_list(ok)
    \/ \E f \in FailPoints, raw \in KeyIdPayloads, jwtOk \in BOOLEAN,
          h \in ApnsOutcomes : send_apns_notifications_send(f, raw, jwtOk, h)
    \/ \E ok \in BOOLEAN : send_apns_notifications_deactivate(ok)

Spec == Init /\ [][Next]_vars

\* ------------------------------------ send_summary_email (notifier/main.py)
SummariesPrefix == <<"s","u","m","m","a","r","i","e","s","/">>
MdSuffix == <<".","m","d">>

\* file_name.startswith('summaries/') and file_name.endswith('.md')
should_process_file(file_name) ==
    /\ Len(file_name) >= Len(SummariesPrefix)
    /\ SubSeq(file_name, 1, Len(SummariesPrefix)) = SummariesPrefix
    /\ Len(file_name) >= Len(MdSuffix)
    /\ SubSeq(file_name, Len(file_name) - Len(MdSuffix) + 1, Len(file_name)) = MdSuffix

\* The stores an invocation of send_summary_email starts from: stores the
\* registration handlers can have left (each record absent, or registered
\* and active), with at most NumEndpoints records over the two collections.
TriggerStores ==
    { st \in [Collections ->
                { f \in [Ids -> {Absent} \cup {Registered(Absent, id) : id \in Ids}] :
                    \A id \in Ids : f[id] \in {Absent, Registered(Absent, id)} }] :
        Cardinality({ p \in Collections \X Ids : st[p[1]][p[2]].exists })
            <= NumEndpoints }

\* Where one invocation of send_summary_email stands: pc is "start", the
\* dispatcher call in progress ("A", then "B") or "done"; email is the outcome
\* of the steps up to send_email; fcm is how the send_fcm_notifications call
\* went ("pending" before it returns; its return value is not kept).
Invocation(pc, email, fcm, raised) ==
    [kind |-> "send_summary_email", pc |-> pc, email |-> email, fcm |-> fcm,
     raised |-> raised]

InitTrigger ==
    /\ unit = "notifier"
    /\ cache = NoCreds
    /\ store \in TriggerStores
    /\ cyc = IdleCycle
    /\ lastCall = NoCall
    /\ caller = Invocation("start", "none", "pending", FALSE)

\* Variant that catches the exception of send_email and goes on to the push
\* notifications.
send_summary_email_begin_EmailCaught(file_name, downloadOk, emailOk) ==
    /\ caller.kind = "send_summary_email" /\ caller.pc = "start"
    /\ caller' = IF ~should_process_file(file_name)
                 THEN Invocation("done", "skipped", "pending", FALSE)
                 ELSE IF ~downloadOk
                 THEN Invocation("done", "raised", "pending", TRUE)
                 ELSE IF ~emailOk
                 THEN Invocation("A", "raised", "pending", FALSE)
                 ELSE Invocation("A", "ok", "pending", FALSE)
    /\ UNCHANGED <<unit, cache, store, cyc, lastCall>>

\* The function up to send_email: a file outside summaries/*.md returns at
\* once; an exception of the download or of send_email leaves the function.
send_summary_email_begin(file_name, downloadOk, emailOk) ==
    /\ caller.kind = "send_summary_email" /\ caller.pc = "start"
    /\ caller' = IF ~should_process_file(file_name)
                 THEN Invocation("done", "skipped", "pending", FALSE)
                 ELSE IF ~downloadOk \/ ~emailOk
                 THEN Invocation("done", "raised", "pending", TRUE)
                 ELSE Invocation("A", "ok", "pending", FALSE)
    /\ UNCHANGED <<unit, cache, store, cyc, lastCall>>

\* How a finished provider-A cycle went.
FcmFault(c) ==
    IF c.auth = "failed" THEN "auth"
    ELSE IF c.listing = "failed" THEN "listing"
    ELSE IF \E k \in 1..Len(c.log) : c.log[k].outcome = "raise" THEN "send"
    ELSE IF \E k \in 1..Len(c.log) : c.log[k].outcome = "fail" THEN "failures"
    ELSE "ok"

\* Variant in which a provider-A cycle that returned 0 ends the invocation.
AfterFcm_StopOnZero(c) ==
    IF c.raised \/ c.result = 0
    THEN Invocation("done", "ok", FcmFault(c), c.raised)
    ELSE Invocation("B", "ok", FcmFault(c), FALSE)

\* The invocation after its call send_fcm_notifications(...) ended as c: the
\* return value is dropped and send_apns_notifications is called next; an
\* exception would leave send_summary_email.
AfterFcm(c) ==
    IF c.raised
    THEN Invocation("done", "ok", FcmFault(c), TRUE)
    ELSE Invocation("B", "ok", FcmFault(c), FALSE)

send_summary_email_fcm_returns ==
    /\ caller.kind = "send_summary_email" /\ caller.pc = "A"
    /\ cyc.provider = "A" /\ cyc.pc = "done"
    /\ caller' = AfterFcm(cyc)
    /\ cyc' = [IdleCycle EXCEPT !.issued = cyc.issued]
    /\ UNCHANGED <<unit, cache, store, lastCall>>

send_summary_email_apns_returns ==
    /\ caller.kind = "send_summary_email" /\ caller.pc = "B"
    /\ cyc.provider = "B" /\ cyc.pc = "done"
    /\ caller' = [caller EXCEPT !.pc = "done", !.raised = cyc.raised]
    /\ UNCHANGED <<unit, cache, store, cyc, lastCall>>

\* The object names of the storage events: summaries/a.md, summaries/a.txt,
\* raw/a.md and .md
NextTrigger ==
    \/ \E f \in { SummariesPrefix \o <<"a">> \o MdSuffix,
                  SummariesPrefix \o <<"a", ".", "t", "x", "t">>,
                  <<"r", "a", "w", "/", "a">> \o MdSuffix,
                  MdSuffix },
          d \in BOOLEAN, e \in BOOLEAN :
          send_summary_email_begin(f, d, e)
    \/ \E ok \in BOOLEAN : send_fcm_notifications_begin(ok)
    \/ \E ok \in BOOLEAN : send_fcm_notifications_list(ok)
    \/ \E h \in FcmOutcomes : send_fcm_notifications_send(h)
    \/ \E ok \in BOOLEAN : send_fcm_notifications_deactivate(ok)
    \/ send_summary_email_fcm_returns
    \/ \E ok \in BOOLEAN : send_apns_notifications_list(ok)
    \/ \E f \in FailPoints, raw \in KeyIdPayloads, jwtOk \in BOOLEAN,
          h \in ApnsOutcomes : send_apns_notifications_send(f, raw, jwtOk, h)
    \/ \E ok \in BOOLEAN : send_apns_notifications_deactivate(ok)
    \/ send_summary_email_apns_returns

SpecTrigger == InitTrigger /\ [][NextTrigger]_vars

\* The steps inside a dispatch cycle: the listing query, a send, a
\* deactivation write, each returning or raising.
\* send_summary_email when every call a dispatcher makes comes back.
FairSpecTrigger ==
    /\ SpecTrigger
    /\ WF_vars(\/ \E ok \in BOOLEAN : send_fcm_notifications_list(ok)
               \/ \E h \in FcmOutcomes : send_fcm_notifications_send(h)
               \/ \E ok \in BOOLEAN : send_fcm_notifications_deactivate(ok)
               \/ \E f \in FailPoints, raw \in KeyIdPayloads, jwtOk \in BOOLEAN,
                     h \in ApnsOutcomes :
                        send_apns_notifications_send(f, raw, jwtOk, h)
               \/ \E ok \in BOOLEAN : send_apns_notifications_deactivate(ok))

\* ------------------------------------------- HTTP registration handlers
\* Token formats (fcm-tokens/main.py, apns-notifier/main.py).
ApnsTokenLen == 64
FcmTokenMinLen == 100
FcmTokenMaxLen == 300

UpperLetters == <<"A", "B", "C", "D", "E", "F", "G", "H", "I", "J", "K", "L", "M",
                  "N", "O", "P", "Q", "R", "S", "T", "U", "V", "W", "X", "Y", "Z">>
LowerLetters == <<"a", "b", "c", "d", "e", "f", "g", "h", "i", "j", "k", "l", "m",
                  "n", "o", "p", "q", "r", "s", "t", "u", "v", "w", "x", "y", "z">>
Digits == {"0", "1", "2", "3", "4", "5", "6", "7", "8", "9"}

\* s with every character that occurs in from replaced by the one at the same
\* place in to.
MapChars(s, from, to) ==
    [k \in 1..Len(s) |->
        IF \E j \in 1..Len(from) : from[j] = s[k]
        THEN to[CHOOSE j \in 1..Len(from) : from[j] = s[k]]
        ELSE s[k]]

\* str.lower() and str.upper()
Lower(s) == MapChars(s, UpperLetters, LowerLetters)
Upper(s) == MapChars(s, LowerLetters, UpperLetters)

\* re.match(r'^[class]+$', s).  What [class]+ has to cover is s without one
\* trailing newline ($ also matches just before it).
Matches(s, class) ==
    LET body == IF Len(s) >= 1 /\ s[Len(s)] = "\n"
                THEN SubSeq(s, 1, Len(s) - 1) ELSE s
    IN body # <<>> /\ \A k \in 1..Len(body) : body[k] \in class

\* FCM_TOKEN_PATTERN: the class [A-Za-z0-9_:\-]
is_valid_fcm_token(token) ==
    /\ token # <<>>
    /\ ~(Len(token) < FcmTokenMinLen \/ Len(token) > FcmTokenMaxLen)
    /\ Matches(token, {UpperLetters[k] : k \in 1..26}
                           \cup {LowerLetters[k] : k \in 1..26}
                           \cup Digits \cup {"_", ":", "-"})

\* APNS_TOKEN_PATTERN: the class [a-fA-F0-9]
is_valid_apns_token(token) ==
    /\ token # <<>>
    /\ Len(token) = ApnsTokenLen
    /\ Matches(token, Digits \cup {"a", "b", "c", "d", "e", "f",
                                     "A", "B", "C", "D", "E", "F"})

Platforms == {<<"i", "o", "s">>, <<"a", "n", "d", "r", "o", "i", "d">>, <<"w", "e", "b">>}

is_valid_platform(platform) == platform \in Platforms

\* The token text of the document with the given id: provider-A tokens of the
\* shortest and of the longest accepted length, provider-B tokens of 64
\* hexadecimal characters.
FcmTokenText(id) ==
    [k \in 1..(IF id % 2 = 1 THEN FcmTokenMinLen ELSE FcmTokenMaxLen) |->
        CASE k = 1 -> Digit(id) [] k = 2 -> "_" [] k = 3 -> ":" [] k = 4 -> "-"
          [] k = 5 -> "Z" [] OTHER -> "a"]

ApnsTokenText(id) ==
    [k \in 1..ApnsTokenLen |->
        CASE k = 1 -> Digit(id) [] k % 2 = 0 -> "a" [] OTHER -> "f"]

\* collection(coll).document(key): the id of the document with that key, 0 for
\* a document outside the ones followed.
DocId(coll, key) ==
    IF coll = "fcm_tokens"
    THEN IF \E id \in Ids : FcmTokenText(id) = key
         THEN CHOOSE id \in Ids : FcmTokenText(id) = key ELSE 0
    ELSE IF \E id \in Ids : ApnsTokenText(id) = key
         THEN CHOOSE id \in Ids : ApnsTokenText(id) = key ELSE 0

\* A JSON value of a request body field: missing, a string, or a value of
\* another type (a number, null).
Missing == [t |-> "missing", s |-> <<>>]
Str(s) == [t |-> "string", s |-> s]
NonText == {[t |-> "number", s |-> <<>>], [t |-> "null", s |-> <<>>]}

\* request.get_json(silent=True): None for a body that is not JSON (kind
\* "none"), otherwise the value: an object with its fields ("object"), or a
\* non-empty array ("array").
Body(kind, token, platform, app_version) ==
    [kind |-> kind, token |-> token, platform |-> platform,
     app_version |-> app_version]

Request(method, body) == [method |-> method, body |-> body]

\* "not data": None and the empty object are falsy.
Falsy(body) ==
    \/ body.kind = "none"
    \/ (body.kind = "object" /\ body.token = Missing /\ body.platform = Missing
        /\ body.app_version = Missing)

\* data.get(name, "").strip() raises AttributeError on a value that is not a
\* string (a number, null), and data.get itself on a body that is an array.
IsText(v) == v.t \in {"missing", "string"}
FieldText(v) == IF v.t = "string" THEN Strip(v.s) ELSE <<>>

\* A handler's answer: the status, and the document written (wrote, with its
\* key and the value of its token field, None when the write sets none).
Response(status, wrote, key, token) ==
    [status |-> status, wrote |-> wrote, key |-> key, token |-> token]

Refused(status) == Response(status, FALSE, <<>>, None)

\* Variant of the token normalisation of register_apns_token without lower().
ApnsTokenOf_NoLower(v) == FieldText(v)

\* data.get("token", "").strip().lower()
ApnsTokenOf(v) == Lower(FieldText(v))

\* fcm-tokens/main.py register_token; storeOk = FALSE: the Firestore write
\* (or get_db) raises.
register_token_response(req, storeOk) ==
    IF req.method = "OPTIONS" THEN Refused(204)
    ELSE IF req.method # "POST" THEN Refused(405)
    ELSE IF Falsy(req.body) THEN Refused(400)
    ELSE IF req.body.kind = "array" THEN Refused(500)
    ELSE IF ~IsText(req.body.token) \/ ~IsText(req.body.platform)
            \/ ~IsText(req.body.app_version) THEN Refused(500)
    ELSE IF ~is_valid_fcm_token(FieldText(req.body.token)) THEN Refused(400)
    ELSE IF ~is_valid_platform(Lower(FieldText(req.body.platform))) THEN Refused(400)
    ELSE IF ~storeOk THEN Refused(500)
    ELSE Response(200, TRUE, FieldText(req.body.token),
                  Some(FieldText(req.body.token)))

\* fcm-tokens/main.py unregister_token
unregister_token_response(req, storeOk) ==
    IF req.method = "OPTIONS" THEN Refused(204)
    ELSE IF req.method # "POST" THEN Refused(405)
    ELSE IF Falsy(req.body) THEN Refused(400)
    ELSE IF req.body.kind = "array" THEN Refused(500)
    ELSE IF ~IsText(req.body.token) THEN Refused(500)
    ELSE IF ~is_valid_fcm_token(FieldText(req.body.token)) THEN Refused(400)
    ELSE IF ~storeOk THEN Refused(500)
    ELSE Response(200, TRUE, FieldText(req.body.token), None)

\* apns-notifier/main.py register_apns_token
register_apns_token_response(req, storeOk) ==
    IF req.method = "OPTIONS" THEN Refused(204)
    ELSE IF req.method # "POST" THEN Refused(405)
    ELSE IF Falsy(req.body) THEN Refused(400)
    ELSE IF req.body.kind = "array" THEN Refused(500)
    ELSE IF ~IsText(req.body.token) \/ ~IsText(req.body.app_version)
         THEN Refused(500)
    ELSE IF ~is_valid_apns_token(ApnsTokenOf(req.body.token)) THEN Refused(400)
    ELSE IF ~storeOk THEN Refused(500)
    ELSE Response(200, TRUE, ApnsTokenOf(req.body.token),
                  Some(ApnsTokenOf(req.body.token)))

\* The requests a client sends.  Token values: the token of a document, the
\* same with surrounding white space or in upper case, and malformed ones.
Pad(s) == <<" ">> \o s \o <<"\n">>

Fill(n, ch) == [k \in 1..n |-> ch]

\* POST requests with every token value and a valid platform, with every
\* platform value and app_version type and a valid token, and with bodies that
\* are no objects; requests of other methods.
FcmRequests ==
    LET FcmTokenValues ==
            {Str(FcmTokenText(id)) : id \in Ids} \cup {Str(Pad(FcmTokenText(id))) : id \in Ids}
                \cup { Str(Fill(FcmTokenMinLen - 1, "a")), Str(Fill(FcmTokenMaxLen + 1, "a")),
                       Str(Fill(FcmTokenMinLen - 1, "a") \o <<"!">>),
                       Str(Fill(FcmTokenMinLen - 1, "a") \o <<"\n", "a">>),
                       Str(<<>>), Missing }
                \cup NonText
    IN
    {Request("POST", Body("object", t, Str(<<"w", "e", "b">>), Missing)) :
        t \in FcmTokenValues}
      \cup {Request("POST", Body("object", Str(FcmTokenText(1)), p, Missing)) :
              p \in {Str(pl) : pl \in Platforms}
                      \cup {Str(Pad(<<"I", "O", "S">>)), Str(<<"l", "i", "n", "u", "x">>),
                            Missing}
                      \cup NonText}
      \cup {Request("POST", Body("object", Str(FcmTokenText(1)), Str(<<"i", "o", "s">>), a)) :
              a \in {Str(<<"1">>)} \cup NonText}
      \cup {Request("POST", Body(k, Missing, Missing, Missing)) :
              k \in {"none", "array", "object"}}
      \cup {Request(m, Body("object", Str(FcmTokenText(1)), Str(<<"i", "o", "s">>), Missing)) :
              m \in {"OPTIONS", "GET"}}

ApnsRequests ==
    LET ApnsTokenValues ==
            {Str(ApnsTokenText(id)) : id \in Ids}
                \cup {Str(Pad(Upper(ApnsTokenText(id)))) : id \in Ids}
                \cup { Str(Fill(ApnsTokenLen - 1, "a")), Str(Fill(ApnsTokenLen + 1, "a")),
                       Str(Fill(ApnsTokenLen - 1, "a") \o <<"g">>),
                       Str(Fill(ApnsTokenLen - 2, "a") \o <<" ", "a">>),
                       Str(<<>>), Missing }
                \cup NonText
    IN
    {Request("POST", Body("object", t, Missing, Missing)) : t \in ApnsTokenValues}
      \cup {Request("POST", Body("object", Str(ApnsTokenText(1)), Missing, a)) :
              a \in {Str(<<"1">>)} \cup NonText}
      \cup {Request("POST", Body(k, Missing, Missing, Missing)) :
              k \in {"none", "array", "object"}}
      \cup {Request(m, Body("object", Str(ApnsTokenText(1)), Missing, Missing)) :
              m \in {"OPTIONS", "GET"}}

\* The last request a client sent, whether the store worked, and the answer.
Exchange(handler, req, storeOk, resp) ==
    [kind |-> "http", pc |-> "idle", handler |-> handler, req |-> req,
     storeOk |-> storeOk, resp |-> resp]

\* The store after the handler's write of the document resp.key.
Written(st, coll, resp, registers) ==
    IF ~resp.wrote \/ DocId(coll, resp.key) = 0 THEN st
    ELSE [st EXCEPT ![coll][DocId(coll, resp.key)] =
             IF registers THEN Registered(@, DocId(coll, resp.key))
             ELSE Unregistered_(@)]

InitHandlers ==
    /\ unit \in {"fcm", "apns_notifier"}
    /\ cache = NoCreds
    /\ store = [coll \in Collections |-> [id \in Ids |-> Absent]]
    /\ cyc = IdleCycle
    /\ lastCall = NoCall
    /\ caller = Exchange("none", Request("none", Body("none", Missing, Missing, Missing)),
                         TRUE, Refused(0))

handle_register_token(req, storeOk) ==
    /\ caller.kind = "http" /\ unit = "fcm"
    /\ caller' = Exchange("register_token", req, storeOk,
                          register_token_response(req, storeOk))
    /\ store' = Written(store, "fcm_tokens",
                        register_token_response(req, storeOk), TRUE)
    /\ UNCHANGED <<unit, cache, cyc, lastCall>>

handle_unregister_token(req, storeOk) ==
    /\ caller.kind = "http" /\ unit = "fcm"
    /\ caller' = Exchange("unregister_token", req, storeOk,
                          unregister_token_response(req, storeOk))
    /\ store' = Written(store, "fcm_tokens",
                        unregister_token_response(req, storeOk), FALSE)
    /\ UNCHANGED <<unit, cache, cyc, lastCall>>

handle_register_apns_token(req, storeOk) ==
    /\ caller.kind = "http" /\ unit = "apns_notifier"
    /\ caller' = Exchange("register_apns_token", req, storeOk,
                          register_apns_token_response(req, storeOk))
    /\ store' = Written(store, "apns_tokens",
                        register_apns_token_response(req, storeOk), TRUE)
    /\ UNCHANGED <<unit, cache, cyc, lastCall>>

NextHandlers ==
    \/ \E req \in FcmRequests, ok \in BOOLEAN : handle_register_token(req, ok)
    \/ \E req \in FcmRequests, ok \in BOOLEAN : handle_unregister_token(req, ok)
    \/ \E req \in ApnsRequests, ok \in BOOLEAN : handle_register_apns_token(req, ok)

SpecHandlers == InitHandlers /\ [][NextHandlers]_vars

\* ------------------------------------------- two dispatch cycles in a row
\* A program that calls the dispatcher of one provider twice: the call it has
\* reached (pc: the provider), which of the two runs is under way, the store
\* before the first run, and how the first run ended.
TwoRuns(provider, run, before, first) ==
    [kind |-> "twice", pc |-> provider, run |-> run, before |-> before,
     first |-> first]

\* The stores the runs start from: records of the provider's collection only,
\* each absent, registered, or registered and unregistered again.
\* How a run ended: the count it returned, and whether the sender reported
\* success for every endpoint the run listed.
RunSummary(c) ==
    [result |-> c.result,
     all_ok |-> /\ ~c.raised /\ c.listing = "ok" /\ Len(c.log) = Len(c.docs)
                /\ \A k \in 1..Len(c.log) : c.log[k].outcome = "ok"]

TwiceStores(provider) ==
    { st \in [Collections ->
                [Ids -> {Absent} \cup {Registered(Absent, id) : id \in Ids}
                          \cup {Unregistered_(Registered(Absent, id)) : id \in Ids}]] :
        \A coll \in Collections, id \in Ids :
            /\ st[coll][id] \in {Absent, Registered(Absent, id),
                                 Unregistered_(Registered(Absent, id))}
            /\ (coll = "fcm_tokens") # (provider = "A") => st[coll][id] = Absent }

InitTwice ==
    /\ unit \in Units
    /\ cache = NoCreds
    /\ store \in TwiceStores(IF unit = "fcm" THEN "A" ELSE "B")
    /\ cyc = IdleCycle
    /\ lastCall = NoCall
    /\ caller = TwoRuns(IF unit = "fcm" THEN "A" ELSE "B", 1, store,
                        RunSummary(IdleCycle))

\* The first run has returned (or raised); the program calls the dispatcher
\* again.
call_dispatch_again ==
    /\ caller.kind = "twice" /\ caller.run = 1
    /\ cyc.pc = "done"
    /\ caller' = TwoRuns(caller.pc, 2, caller.before, RunSummary(cyc))
    /\ cyc' = [IdleCycle EXCEPT !.issued = cyc.issued]
    /\ UNCHANGED <<unit, cache, store, lastCall>>

NextTwice ==
    \/ \E ok \in BOOLEAN : send_fcm_notifications_begin(ok)
    \/ \E ok \in BOOLEAN : send_fcm_notifications_list(ok)
    \/ \E h \in FcmOutcomes : send_fcm_notifications_send(h)
    \/ \E ok \in BOOLEAN : send_fcm_notifications_deactivate(ok)
    \/ \E ok \in BOOLEAN : send_apns_notifications_list(ok)
    \/ \E f \in FailPoints, raw \in KeyIdPayloads, jwtOk \in BOOLEAN,
          h \in ApnsOutcomes : send_apns_notifications_send(f, raw, jwtOk, h)
    \/ \E ok \in BOOLEAN : send_apns_notifications_deactivate(ok)
    \/ call_dispatch_again

SpecTwice == InitTwice /\ [][NextTwice]_vars

\* --------------------------------------------- calls of the sender alone
\* A program that calls send_apns_notification: nothing called yet (pc
\* "start"), or the provider's outcome h of the last call and what the call
\* returned (pc "returned").
SenderCall(pc, h, result) ==
    [kind |-> "sender", pc |-> pc, h |-> h, result |-> result]

InitSender ==
    /\ unit \in Copies
    /\ cache = NoCreds
    /\ store = [coll \in Collections |-> [id \in Ids |-> Absent]]
    /\ cyc = IdleCycle
    /\ lastCall = NoCall
    /\ caller = SenderCall("start", Http("none", 0, "empty", EmptyText),
                           SendResult(FALSE, EmptyText, FALSE,
                               JwtResult(None, FALSE, EmptyText,
                                         CredResult(NoCreds, NoCreds, FALSE, 0))))

call_send_apns_notification(failAt, rawKeyId, jwtOk, h) ==
    /\ caller.kind = "sender"
    /\ \E r \in {send_apns_notification(unit, cache, failAt, rawKeyId, jwtOk, h)} :
          /\ CredentialsUsed(failAt, r.jwt)
          /\ caller' = SenderCall("returned", h, r)
    /\ UNCHANGED <<unit, store, cyc>>

NextSender ==
    \/ \E f \in FailPoints, raw \in KeyIdPayloads, jwtOk \in BOOLEAN,
          h \in ApnsOutcomes : call_send_apns_notification(f, raw, jwtOk, h)
    \/ call_reset_apns_credentials

SpecSender == InitSender /\ [][NextSender]_vars

\* ------------------------------------------------- notification title
DefaultTitle ==
    <<"D", "a", "i", "l", "y", " ", "E", "n", "g", "i", "n", "e", "e", "r", "i", "n", "g",
      " ", "B", "r", "i", "e", "f", "i", "n", "g">>

\* s.split('\n'): the pieces between the newlines of s, a single empty piece
\* for the empty text.
SplitLines(s) ==
    [j \in 1..(Cardinality({k \in 1..Len(s) : s[k] = "\n"}) + 1) |->
        SubSeq(s,
               IF j = 1 THEN 1
               ELSE SortedSeq({k \in 1..Len(s) : s[k] = "\n"})[j - 1] + 1,
               IF j = Cardinality({k \in 1..Len(s) : s[k] = "\n"}) + 1 THEN Len(s)
               ELSE SortedSeq({k \in 1..Len(s) : s[k] = "\n"})[j] - 1)]

\* The title the loop over the stripped lines gives: the first line that
\* starts with '#' or that is non-empty and does not start with '*' decides;
\* a '#' line gives its text after lstrip('#').strip(), another line its
\* first 80 characters, with "..." when it is longer.
TitleOfLines(lines) ==
    IF \A k \in 1..Len(lines) : lines[k] = <<>> \/ lines[k][1] = "*"
    THEN DefaultTitle
    ELSE LET line == lines[CHOOSE k \in 1..Len(lines) :
                         /\ ~(lines[k] = <<>> \/ lines[k][1] = "*")
                         /\ \A j \in 1..(k - 1) : lines[j] = <<>> \/ lines[j][1] = "*"]
         IN IF line[1] = "#"
            THEN Strip(SubSeq(line,
                     1 + (CHOOSE n \in 0..Len(line) :
                            /\ \A k \in 1..n : line[k] = "#"
                            /\ n = Len(line) \/ line[n + 1] # "#"),
                     Len(line)))
            ELSE IF Len(line) > 80
                 THEN SubSeq(line, 1, 80) \o <<".", ".", ".">>
                 ELSE line

\* send_summary_email: title from content.strip().split('\n'), each line
\* stripped.
notification_title(content) ==
    TitleOfLines([k \in 1..Len(SplitLines(Strip(content))) |->
                     Strip(SplitLines(Strip(content))[k])])

InitCompose ==
    /\ unit = "notifier"
    /\ cache = NoCreds
    /\ store = [coll \in Collections |-> [id \in Ids |-> Absent]]
    /\ cyc = IdleCycle
    /\ lastCall = NoCall
    /\ caller = [kind |-> "compose", pc |-> "start", content |-> <<>>,
                 title |-> <<>>]

\* send_summary_email from the downloaded content to the title.  Content of
\* white space only converts to the empty HTML body, which send_email
\* rejects with ValueError before any title is derived (pc "raised").
compose_notification(content) ==
    /\ caller.kind = "compose"
    /\ caller' = IF Strip(content) = <<>>
                 THEN [kind |-> "compose", pc |-> "raised", content |-> content,
                       title |-> <<>>]
                 ELSE [kind |-> "compose", pc |-> "done", content |-> content,
                       title |-> notification_title(content)]
    /\ UNCHANGED <<unit, cache, store, cyc, lastCall>>

\* Summary documents of one to three lines; the lines: headings, plain text
\* of 1, 80 and 81 characters, a bullet, an empty line.
NextCompose ==
    LET SummaryLines ==
            { <<"#", " ", "M", "y", " ", "T", "i", "t", "l", "e">>,
              <<" ", "#", "#", " ", "H", "2", " ">>,
              <<"#">>,
              <<"t">>,
              [k \in 1..80 |-> "y"],
              [k \in 1..81 |-> "z"],
              <<"*", " ", "b">>,
              <<>> }
        SummaryContents ==
            SummaryLines
             \cup {a \o <<"\n">> \o b : a \in SummaryLines, b \in SummaryLines}
             \cup {a \o <<"\n">> \o b \o <<"\n">> \o c :
                     a \in SummaryLines, b \in SummaryLines, c \in SummaryLines}
    IN \E content \in SummaryContents : compose_notification(content)

SpecCompose == InitCompose /\ [][NextCompose]_vars

\* ------------------------------------------- registration time stamps
\* The record after the registration handlers' set(..., merge=True) at the
\* instant now: the fields of Registered, and registered_at and last_seen,
\* both written on every call.
Stamped(rec, id, now) ==
    [registered_at |-> now, last_seen |-> now] @@ Registered(rec, id)

\* Records carry their time stamps (0: never written); caller.now is the
\* stamp of the last write that landed.
InitClock ==
    /\ unit \in {"fcm", "apns_notifier"}
    /\ cache = NoCreds
    /\ store = [coll \in Collections |->
                  [id \in Ids |-> [registered_at |-> 0, last_seen |-> 0] @@ Absent]]
    /\ cyc = IdleCycle
    /\ lastCall = NoCall
    /\ caller = [kind |-> "clock", pc |-> "idle", now |-> 0]

\* The set(..., merge=True) of a valid POST to register_token (unit "fcm") or
\* to register_apns_token lands; now is the clock value the request read
\* before the write.  Writes of concurrent requests land in any order, and
\* the clock may have been set back, so now may lie before the stamp of the
\* last write.
register_at(id, now) ==
    /\ caller.kind = "clock"
    /\ store' = IF unit = "fcm"
                THEN [store EXCEPT !["fcm_tokens"][id] = Stamped(@, id, now)]
                ELSE [store EXCEPT !["apns_tokens"][id] = Stamped(@, id, now)]
    /\ caller' = [caller EXCEPT !.now = now]
    /\ UNCHANGED <<unit, cache, cyc, lastCall>>

NextClock ==
    \/ \E id \in Ids, now \in 1..MaxTime : register_at(id, now)
    \/ \E id \in Ids, ok \in BOOLEAN : unregister_token(id, ok)

SpecClock == InitClock /\ [][NextClock]_vars

\* ------------------------------------ concurrent get_apns_credentials
\* Threads of one instance share the module globals.  Each thread is outside
\* the function ("idle"), before its first, second or third fetch ("f1",
\* "f2", "f3"), or back with the triple it returned ("done").  Every fetch
\* succeeds.
InitThreads ==
    /\ unit \in Copies
    /\ cache = NoCreds
    /\ store = [coll \in Collections |-> [id \in Ids |-> Absent]]
    /\ cyc = IdleCycle
    /\ lastCall = NoCall
    /\ caller = [kind |-> "threads", pc |-> "run",
                 th |-> [t \in 1..NumThreads |-> [pc |-> "idle", ret |-> NoCreds]]]

\* The next step of thread t in get_apns_credentials: the test of _apns_key
\* (returning the three globals when it is set), one fetch with the
\* assignment of its one global, the return of the three globals after the
\* third; rawKeyId is the payload the key-id secret holds at this step (read
\* by the second fetch only).
get_apns_credentials_step(t, rawKeyId) ==
    /\ caller.kind = "threads"
    /\ CASE caller.th[t].pc = "idle" ->
              /\ caller' = [caller EXCEPT !.th[t] =
                               IF cache.key # None
                               THEN [pc |-> "done", ret |-> cache]
                               ELSE [pc |-> "f1", ret |-> NoCreds]]
              /\ cache' = cache
         [] caller.th[t].pc = "f1" ->
              /\ cache' = [cache EXCEPT !.key = Some(Decode(<<80>>))]
              /\ caller' = [caller EXCEPT !.th[t].pc = "f2"]
         [] caller.th[t].pc = "f2" ->
              /\ cache' = [cache EXCEPT !.key_id = Some(Strip(Decode(rawKeyId)))]
              /\ caller' = [caller EXCEPT !.th[t].pc = "f3"]
         [] caller.th[t].pc = "f3" ->
              /\ cache' = [cache EXCEPT
                              !.team_id = Some(Strip(Decode(<<32, 84, 49>>)))]
              /\ caller' = [caller EXCEPT !.th[t] =
                               [pc |-> "done",
                                ret |-> [cache EXCEPT !.team_id =
                                           Some(Strip(Decode(<<32, 84, 49>>)))]]]
         [] OTHER ->
              /\ caller' = [caller EXCEPT !.th[t] = [pc |-> "idle", ret |-> NoCreds]]
              /\ cache' = cache
    /\ UNCHANGED <<unit, store, cyc, lastCall>>

NextThreads ==
    \E t \in 1..NumThreads, raw \in KeyIdPayloads : get_apns_credentials_step(t, raw)

SpecThreads == InitThreads /\ [][NextThreads]_vars

\* --------------------------- registration during a dispatch cycle
\* One dispatch cycle of the unit's provider with registration calls arriving
\* at any moment.  caller.late holds the endpoints whose registration
\* completed after the running cycle had received their permanent-failure
\* response.
InitRace ==
    /\ unit \in Units
    /\ cache = NoCreds
    /\ store = [coll \in Collections |-> [id \in Ids |-> Absent]]
    /\ cyc = IdleCycle
    /\ lastCall = NoCall
    /\ caller = [kind |-> "race", pc |-> IF unit = "fcm" THEN "A" ELSE "B",
                 late |-> {}]

\* A valid POST to register_token (unit "fcm") or to register_apns_token
\* whose set(..., merge=True) has returned.
register_during_cycle(id) ==
    /\ caller.kind = "race"
    /\ store' = IF unit = "fcm"
                THEN [store EXCEPT !["fcm_tokens"][id] = Registered(@, id)]
                ELSE [store EXCEPT !["apns_tokens"][id] = Registered(@, id)]
    /\ caller' = IF cyc.pc = "deact" /\ cyc.docs[cyc.i].id = id
                 THEN [caller EXCEPT !.late = @ \cup {id}]
                 ELSE caller
    /\ UNCHANGED <<unit, cache, cyc, lastCall>>

NextRace ==
    \/ \E id \in Ids : register_during_cycle(id)
    \/ \E ok \in BOOLEAN : send_fcm_notifications_begin(ok)
    \/ \E ok \in BOOLEAN : send_fcm_notifications_list(ok)
    \/ \E h \in FcmOutcomes : send_fcm_notifications_send(h)
    \/ \E ok \in BOOLEAN : send_fcm_notifications_deactivate(ok)
    \/ \E ok \in BOOLEAN : send_apns_notifications_list(ok)
    \/ \E f \in FailPoints, raw \in KeyIdPayloads, jwtOk \in BOOLEAN,
          h \in ApnsOutcomes : send_apns_notifications_send(f, raw, jwtOk, h)
    \/ \E ok \in BOOLEAN : send_apns_notifications_deactivate(ok)

SpecRace == InitRace /\ [][NextRace]_vars

\* ------------------------- the three provider-B dispatchers side by side
\* The three copies of send_apns_notifications run on the same inputs: each
\* has its own globals (cache) and its own cycle, starts from the same store
\* contents, and is given at every step the same secret-fetch outcome, the
\* same jwt.encode outcome, the same provider response and the same outcome
\* of the deactivation write.  The loops are the same code, so the copies
\* stand at the same document at every step.
InitCopies ==
    /\ unit = "shared"
    /\ cache = NoCreds
    /\ store \in TwiceStores("B")
    /\ cyc = IdleCycle
    /\ lastCall = NoCall
    /\ caller = [kind |-> "copies", pc |-> "B",
                 runs |-> [copy \in Copies |->
                             [cyc |-> NewCycle("B"), cache |-> NoCreds,
                              store |-> store]]]

\* Each copy up to "if not docs".
copies_list(listOk) ==
    /\ caller.kind = "copies"
    /\ \A copy \in Copies : caller.runs[copy].cyc.pc = "list"
    /\ caller' = [caller EXCEPT !.runs = [copy \in Copies |->
          [caller.runs[copy] EXCEPT !.cyc =
              IF ~listOk
              THEN OnException([NewCycle("B") EXCEPT !.listing = "failed"])
              ELSE LET docs == ListActive(caller.runs[copy].store, "apns_tokens")
                       c == [NewCycle("B") EXCEPT !.listing = "ok", !.docs = docs]
                   IN IF docs = <<>> THEN Return(c, 0) ELSE Advance(c)]]]
    /\ UNCHANGED <<unit, cache, store, cyc, lastCall>>

\* One iteration of a copy's loop, its sender having given r: the globals
\* the sender left, the count, and the deactivation write if the reason is
\* permanent.
Iterated(run, r, storeOk) ==
    IF run.cyc.docs[run.cyc.i].token = None
    THEN [run EXCEPT !.cyc = Advance(@)]
    ELSE IF ~r.success /\ IsPermanentApns(r.reason)
    THEN [cyc |-> Advance(WriteIssued(
                     ApnsSent(run.cyc, run.cyc.docs[run.cyc.i].id, r),
                     run.cyc.docs[run.cyc.i].id, storeOk)),
          cache |-> r.jwt.cred.cache,
          store |-> IF storeOk
                    THEN [run.store EXCEPT
                            !["apns_tokens"][run.cyc.docs[run.cyc.i].id] =
                                Deactivated(@)]
                    ELSE run.store]
    ELSE [cyc |-> ApnsSent(run.cyc, run.cyc.docs[run.cyc.i].id, r),
          cache |-> r.jwt.cred.cache,
          store |-> run.store]

copies_iterate(failAt, rawKeyId, jwtOk, h, storeOk) ==
    /\ caller.kind = "copies"
    /\ \A copy \in Copies : caller.runs[copy].cyc.pc = "send"
    /\ \E rs \in {[copy \in Copies |->
                     send_apns_notification(copy, caller.runs[copy].cache,
                                            failAt, rawKeyId, jwtOk, h)]} :
          caller' = [caller EXCEPT !.runs = [copy \in Copies |->
                        Iterated(caller.runs[copy], rs[copy], storeOk)]]
    /\ UNCHANGED <<unit, cache, store, cyc, lastCall>>

NextCopies ==
    \/ \E ok \in BOOLEAN : copies_list(ok)
    \/ \E f \in FailPoints, raw \in KeyIdPayloads, jwtOk \in BOOLEAN,
          h \in ApnsOutcomes, ok \in BOOLEAN : copies_iterate(f, raw, jwtOk, h, ok)

SpecCopies == InitCopies /\ [][NextCopies]_vars

\* ------------------------- one provider-A cycle over a larger collection
\* send_fcm_notifications called once over an fcm_tokens collection of
\* BatchSize documents, each absent or registered and active.
InitBatch ==
    /\ unit = "fcm"
    /\ cache = NoCreds
    /\ store \in { st \in [Collections ->
                             [1..BatchSize -> {Absent} \cup
                                 {Registered(Absent, id) : id \in 1..BatchSize}]] :
                      /\ \A id \in 1..BatchSize :
                            /\ st["fcm_tokens"][id] \in {Absent, Registered(Absent, id)}
                            /\ st["apns_tokens"][id] = Absent }
    /\ cyc = IdleCycle
    /\ lastCall = NoCall
    /\ caller = [kind |-> "batch", pc |-> "A"]

NextBatch ==
    \/ \E ok \in BOOLEAN : send_fcm_notifications_begin(ok)
    \/ \E ok \in BOOLEAN : send_fcm_notifications_list(ok)
    \/ \E h \in FcmOutcomes : send_fcm_notifications_send(h)
    \/ \E ok \in BOOLEAN : send_fcm_notifications_deactivate(ok)

SpecBatch == InitBatch /\ [][NextBatch]_vars

\* ================================================================ claims
\* Helpers of the claims below.
Done == cyc.pc = "done"

\* The loop has finished with log entry k (its deactivation write, if any,
\* has been issued).
Settled(k) == k < Len(cyc.log) \/ cyc.pc # "deact"

NumOk == Cardinality({k \in 1..Len(cyc.log) : cyc.log[k].outcome = "ok"})

Occurrences(seq, x) == Cardinality({k \in 1..Len(seq) : seq[k] = x})

\* Every listed endpoint has a log entry: the loop reached each of them.
AllAttempted == cyc.listing = "ok" /\ Len(cyc.log) = Len(cyc.docs)

PermanentReasonsB == {BadDeviceToken, Unregistered, ExpiredToken}

InPermanentSet(provider, reason) ==
    IF provider = "B"
    THEN reason \in PermanentReasonsB
    ELSE Contains(reason, UNREGISTERED) \/ Contains(reason, INVALID_ARGUMENT)

\* C1: a completed dispatch cycle of either provider in which the sender
\* reported success for every one of the N listed endpoints returned N and
\* issued no deactivation write.
C1_AllSuccessReturnsN ==
    (Done /\ AllAttempted /\ \A k \in 1..Len(cyc.log) : cyc.log[k].outcome = "ok")
        => (cyc.result = Len(cyc.docs) /\ cyc.updates = <<>> /\ ~cyc.raised)

C1_Witness ==
    /\ Done /\ cyc.provider = "B" /\ AllAttempted /\ Len(cyc.docs) >= 2
    /\ \A k \in 1..Len(cyc.log) : cyc.log[k].outcome = "ok"
    /\ cyc.result = Len(cyc.docs)

\* C2 as stated: in a dispatch cycle of either provider, an endpoint whose
\* send failed with a reason of the provider's permanent set gets the
\* active=false write exactly once, no write is issued for an endpoint
\* without such a failure, the failed endpoint is not counted, and a cycle
\* with such a failure still returns the number of endpoints whose send
\* succeeded.
C2_PermanentFailureDeactivatesOnce ==
    cyc.provider \in {"A", "B"} =>
        /\ \A k \in 1..Len(cyc.log) :
              Settled(k) =>
                 Occurrences(cyc.updates, cyc.log[k].id) =
                    (IF cyc.log[k].outcome = "fail"
                        /\ InPermanentSet(cyc.provider, cyc.log[k].reason)
                     THEN 1 ELSE 0)
        /\ \A j \in 1..Len(cyc.updates) :
              \E k \in 1..Len(cyc.log) : cyc.log[k].id = cyc.updates[j]
        /\ (Done /\ \E k \in 1..Len(cyc.log) :
                        /\ cyc.log[k].outcome = "fail"
                        /\ InPermanentSet(cyc.provider, cyc.log[k].reason))
              => cyc.result = NumOk

\* C3: a cycle issues the deactivation write for a failed endpoint exactly
\* when the reason is in the provider's permanent set (provider B: equal to
\* BadDeviceToken, Unregistered or ExpiredToken; provider A: containing
\* UNREGISTERED or INVALID_ARGUMENT); after InternalServerError, "HTTP 500",
\* "No APNs credentials" or any other reason no write is issued and a
\* provider-B endpoint is still active.
C3_DeactivationIffPermanent ==
    \A k \in 1..Len(cyc.log) :
        (Settled(k) /\ cyc.log[k].outcome # "ok") =>
            /\ (Occurrences(cyc.updates, cyc.log[k].id) > 0)
                  <=> InPermanentSet(cyc.provider, cyc.log[k].reason)
            /\ (cyc.log[k].reason \in {InternalServerError, HttpReason(500),
                                       NoApnsCredentials})
                  => Occurrences(cyc.updates, cyc.log[k].id) = 0
            /\ (cyc.provider = "B"
                /\ ~InPermanentSet(cyc.provider, cyc.log[k].reason))
                  => store["apns_tokens"][cyc.log[k].id].active

C3_Witness ==
    /\ Done /\ cyc.provider = "A" /\ Len(cyc.log) = 2
    /\ cyc.log[1].outcome = "fail"
    /\ cyc.log[1].reason = FcmErrorBody(INVALID_ARGUMENT)
    /\ cyc.log[2].outcome = "fail"
    /\ cyc.log[2].reason = FcmErrorBody(UNAVAILABLE)
    /\ cyc.updates = <<cyc.log[1].id>>

\* C4 as stated: in a provider-A cycle a failed send with the text
\* "messaging/invalid-registration-token", or with a text containing
\* INVALID_ARGUMENT, is followed by the deactivation write, and one with
\* "messaging/internal-error" is not.
C4_Original ==
    \A k \in 1..Len(cyc.log) :
        (cyc.provider = "A" /\ Settled(k) /\ cyc.log[k].outcome = "fail") =>
            /\ (cyc.log[k].reason = MessagingInvalidRegistrationToken
                \/ Contains(cyc.log[k].reason, INVALID_ARGUMENT))
                  => Occurrences(cyc.updates, cyc.log[k].id) = 1
            /\ cyc.log[k].reason = MessagingInternalError
                  => Occurrences(cyc.updates, cyc.log[k].id) = 0

\* C4 amended: in a provider-A cycle a failed send whose text contains
\* INVALID_ARGUMENT is followed by the deactivation write; one whose text is
\* "messaging/invalid-registration-token" or "messaging/internal-error"
\* (neither contains UNREGISTERED or INVALID_ARGUMENT) is not.
C4_FcmSubstringDeactivation ==
    \A k \in 1..Len(cyc.log) :
        (cyc.provider = "A" /\ Settled(k) /\ cyc.log[k].outcome = "fail") =>
            /\ Contains(cyc.log[k].reason, INVALID_ARGUMENT)
                  => Occurrences(cyc.updates, cyc.log[k].id) = 1
            /\ cyc.log[k].reason \in {MessagingInvalidRegistrationToken,
                                      MessagingInternalError}
                  => Occurrences(cyc.updates, cyc.log[k].id) = 0

C4_Witness ==
    /\ Done /\ cyc.provider = "A" /\ Len(cyc.log) = 2
    /\ cyc.log[1].outcome = "fail"
    /\ cyc.log[1].reason = MessagingInvalidRegistrationToken
    /\ cyc.log[2].outcome = "fail"
    /\ Contains(cyc.log[2].reason, INVALID_ARGUMENT)
    /\ cyc.updates = <<cyc.log[2].id>>

\* C5: a dispatch cycle never raises to its caller: whenever it has ended,
\* after a credential failure, a listing failure, a failed or raising send
\* or a failed deactivation write, it has returned a count.
C5_NeverRaises ==
    Done => (~cyc.raised /\ cyc.result \in 0..Len(cyc.docs))

C5_Witness ==
    /\ Done /\ cyc.provider = "A" /\ Len(cyc.log) = 2
    /\ cyc.log[1].outcome = "ok"
    /\ cyc.log[2].outcome = "raise"
    /\ ~cyc.raised /\ cyc.result = 0

\* C6 as stated: when a send fails with a network-level exception, in either
\* provider's cycle, the endpoint gets no deactivation write, every listed
\* endpoint is still attempted and the returned count is the number of
\* endpoints whose send succeeded.
C6_NetworkExceptionIsTransient ==
    (Done /\ cyc.listing = "ok"
          /\ \E k \in 1..Len(cyc.log) :
                \/ cyc.log[k].outcome = "raise"
                \/ (cyc.log[k].outcome = "fail" /\ cyc.log[k].reason = ConnectErrorText))
        => /\ Len(cyc.log) = Len(cyc.docs)
           /\ cyc.result = NumOk
           /\ \A k \in 1..Len(cyc.log) :
                 cyc.log[k].reason = ConnectErrorText
                    => Occurrences(cyc.updates, cyc.log[k].id) = 0

\* The last credential call started fetching and one of its fetches raised.
FetchFailed ==
    lastCall.op = "get" /\ lastCall.nfetch > 0 /\ lastCall.failAt # 0

\* C7 as stated: after a get_apns_credentials call in which one of the three
\* secret fetches failed, none of the three values is cached (so the next
\* call fetches all three again).
C7_AllOrNothingCache ==
    FetchFailed => cache = NoCreds

Complete(c) == c.key # None /\ c.key_id # None /\ c.team_id # None

\* C8 (as stated): a get_apns_credentials call fetches from the secret store
\* if and only if the cache is empty.
C8_Original ==
    lastCall.op = "get" => ((lastCall.nfetch > 0) <=> (lastCall.before = NoCreds))

\* C8 (amended): a get_apns_credentials call starts a load exactly when the
\* cache is empty.  With anything cached it performs no fetch, returns the
\* cached triple and leaves the cache alone.  With an empty cache it
\* constructs the secret-store client and fetches the key, the key id and the
\* team id in that order up to the first step that raises: three fetches when
\* nothing fails (the triple is then cached and returned), as many as it
\* started when a fetch fails, none when the client cannot be constructed.
\* reset_apns_credentials empties the cache, so the first call after it
\* starts the load again, with the same number of fetches.
C8_FetchIffCacheEmpty ==
    /\ [](lastCall.op = "get" =>
            /\ lastCall.before # NoCreds
                  => (lastCall.nfetch = 0 /\ ~lastCall.raised
                      /\ lastCall.ret = lastCall.before
                      /\ cache = lastCall.before)
            /\ lastCall.before = NoCreds
                  => lastCall.nfetch = (IF lastCall.failAt = 0 THEN 3
                                        ELSE IF lastCall.failAt = 4 THEN 0
                                        ELSE lastCall.failAt)
            /\ (lastCall.before = NoCreds /\ lastCall.failAt = 0)
                  => (lastCall.nfetch = 3 /\ Complete(lastCall.ret)
                      /\ cache = lastCall.ret))
    /\ [](lastCall.op = "reset" => cache = NoCreds)
    /\ [][(lastCall.op = "reset" /\ lastCall'.op = "get")
             => /\ lastCall'.before = NoCreds
                /\ lastCall'.failAt = 0 => lastCall'.nfetch = 3
                /\ lastCall'.failAt = 4 => lastCall'.nfetch = 0
                /\ lastCall'.failAt \in 1..3
                      => lastCall'.nfetch = lastCall'.failAt]_vars

C8_Witness ==
    /\ unit = "shared" /\ lastCall.op = "get"
    /\ Complete(lastCall.before) /\ lastCall.nfetch = 0
    /\ lastCall.ret = cache

\* C9 as stated: when a secret fetch raises, get_apns_credentials (in every
\* copy) does not raise but returns (None, None, None), and create_apns_jwt
\* returns None.
C9_FetchFailureGivesSentinel ==
    FetchFailed =>
        /\ ~lastCall.raised /\ lastCall.ret = NoCreds
        /\ ~lastCall.jwtRaised /\ lastCall.jwt = None

\* C10 as stated: a cycle whose provider credentials were unavailable
\* (provider A: the access-token exchange raised; provider B, any copy: no
\* send of the cycle obtained three truthy credential values from
\* get_apns_credentials) returns 0, posts no request to the provider and
\* issues no deactivation write.
C10_NoCredentialsNoSends ==
    (Done /\ ( \/ (cyc.provider = "A" /\ cyc.auth = "failed")
               \/ (cyc.provider = "B" /\ AllAttempted
                   /\ \A k \in 1..Len(cyc.log) : ~cyc.log[k].cred) ))
        => /\ cyc.result = 0
           /\ \A k \in 1..Len(cyc.log) : ~cyc.log[k].posted
           /\ cyc.updates = <<>>

\* C11: in send_summary_email, once send_email has succeeded the provider-B
\* dispatch is started after the provider-A dispatch has returned, whatever
\* happened in the provider-A cycle (credential failure, listing error, failed
\* or raising sends): a provider-B cycle runs only after the provider-A cycle
\* returned a count, a finished provider-A cycle never leaves the invocation
\* by an exception, and an invocation that ended after a successful email has
\* run the provider-B cycle.
C11_ApnsFollowsFcm ==
    caller.kind = "send_summary_email" =>
        /\ cyc.provider = "B" => (caller.email = "ok" /\ caller.fcm # "pending"
                                  /\ caller.pc \in {"B", "done"})
        /\ (caller.pc = "A" /\ cyc.pc = "done") => AfterFcm(cyc).pc = "B"
        /\ (caller.pc = "done" /\ caller.email = "ok")
              => (cyc.provider = "B" /\ cyc.pc = "done" /\ ~caller.raised)

C11_Witness ==
    /\ caller.kind = "send_summary_email" /\ caller.email = "ok"
    /\ caller.fcm \in {"auth", "listing", "send"}
    /\ cyc.provider = "B" /\ Len(cyc.log) >= 1

\* C12: a dispatch cycle in which the store raised while the active endpoints
\* were listed has returned 0 without raising, has sent nothing and has issued
\* no deactivation write.
C12_ListingErrorReturnsZero ==
    (Done /\ cyc.listing = "failed")
        => /\ cyc.result = 0 /\ ~cyc.raised
           /\ cyc.log = <<>> /\ cyc.updates = <<>>

C12_Witness ==
    /\ Done /\ cyc.provider = "B" /\ cyc.listing = "failed"
    /\ \A id \in Ids : store["apns_tokens"][id].active
    /\ cyc.result = 0

\* C13: when the deactivation write for a permanently failed endpoint raises,
\* the cycle goes on with the next endpoint and returns the count of the
\* successful sends, as it does when the write succeeds; the failing write
\* changes nothing in the store, so the endpoint remains active.
C13_FailedWriteDoesNotAbort ==
    /\ [](\A k \in 1..Len(cyc.failed) :
            /\ (Done /\ \A j \in 1..Len(cyc.log) : cyc.log[j].outcome # "raise")
                  => (AllAttempted /\ cyc.result = NumOk)
            /\ cyc.provider = "B"
                  => store["apns_tokens"][cyc.failed[k]].active)
    /\ [][(cyc.pc = "deact" /\ Len(cyc'.failed) > Len(cyc.failed))
            => (store' = store /\ cyc'.success_count = cyc.success_count)]_vars

C13_Witness ==
    /\ Done /\ cyc.provider = "B" /\ Len(cyc.log) = 2
    /\ cyc.log[1].outcome = "fail" /\ cyc.log[1].reason = Unregistered
    /\ cyc.failed = <<cyc.log[1].id>>
    /\ cyc.log[2].outcome = "ok"
    /\ cyc.result = 1
    /\ store["apns_tokens"][cyc.log[1].id].active

\* The collection a cycle of the provider reads.
CollectionOf(provider) == IF provider = "A" THEN "fcm_tokens" ELSE "apns_tokens"

\* The step is a listing query that succeeded.
ListingStep ==
    /\ cyc.pc \in {"idle", "done", "list"}
    /\ cyc'.listing = "ok"
    /\ cyc' # cyc

\* C14: the endpoints a dispatch cycle lists are records whose active flag was
\* true in the store the listing query ran on, a record with active = false
\* at that moment is not listed, and the cycle sends only to listed endpoints.
C14_OnlyActiveListed ==
    /\ [][ListingStep =>
            /\ \A k \in 1..Len(cyc'.docs) :
                  /\ store[CollectionOf(cyc'.provider)][cyc'.docs[k].id].exists
                  /\ store[CollectionOf(cyc'.provider)][cyc'.docs[k].id].active
            /\ \A id \in Ids :
                  ~store[CollectionOf(cyc'.provider)][id].active
                     => \A k \in 1..Len(cyc'.docs) : cyc'.docs[k].id # id]_vars
    /\ [](\A k \in 1..Len(cyc.log) :
             \E j \in 1..Len(cyc.docs) : cyc.docs[j].id = cyc.log[k].id)

C14_Witness ==
    /\ cyc.provider = "A" /\ cyc.listing = "ok" /\ Done
    /\ Len(cyc.docs) = 1 /\ Len(cyc.log) = 1
    /\ cyc.updates = <<>>
    /\ \E id \in Ids :
          /\ store["fcm_tokens"][id].exists /\ ~store["fcm_tokens"][id].active
          /\ store["fcm_tokens"][id].token # None
          /\ cyc.docs[1].id # id

\* The step is a successful write of a registration handler.
RegistrationStep ==
    \E id \in Ids : register_token(id, TRUE) \/ register_apns_token(id, TRUE)

\* C15: a record's active flag goes from false to true only in a step of a
\* registration handler (register_token, register_apns_token); no step of a
\* dispatch cycle, of unregister_token or of a credential operation sets it
\* to true.
C15_ReactivationOnlyByRegistration ==
    [][(\E coll \in Collections, id \in Ids :
            ~store[coll][id].active /\ store'[coll][id].active)
        => RegistrationStep]_vars

C15_Witness ==
    /\ Done /\ cyc.provider = "B"
    /\ \E k \in 1..Len(cyc.updates) :
          /\ \A j \in 1..Len(cyc.failed) : cyc.failed[j] # cyc.updates[k]
          /\ store["apns_tokens"][cyc.updates[k]].active

\* C16 as stated: a record comes into existence only in a step of a
\* registration handler (register_token, register_apns_token), and no step
\* removes a record.
C16_RecordsOnlyFromRegistration ==
    [][/\ (\E coll \in Collections, id \in Ids :
              ~store[coll][id].exists /\ store'[coll][id].exists)
          => RegistrationStep
       /\ \A coll \in Collections, id \in Ids :
              store[coll][id].exists => store'[coll][id].exists]_vars

LowerHexChars == Digits \cup {"a", "b", "c", "d", "e", "f"}

\* C17: every record register_apns_token writes is keyed by exactly 64
\* lowercase hexadecimal characters (upper-case input is lowered first), every
\* record register_token or unregister_token writes is keyed by 100 to 300
\* characters over [A-Za-z0-9_:-], and the token field a handler writes equals
\* the key; a stored record's token field names its own document.
C17_KeysWellFormed ==
    /\ (caller.kind = "http" /\ caller.resp.wrote) =>
          /\ caller.handler = "register_apns_token" =>
                /\ Len(caller.resp.key) = 64
                /\ \A k \in 1..Len(caller.resp.key) :
                      caller.resp.key[k] \in LowerHexChars
          /\ caller.handler \in {"register_token", "unregister_token"} =>
                /\ Len(caller.resp.key) \in 100..300
                /\ \A k \in 1..Len(caller.resp.key) :
                      \/ caller.resp.key[k] \in Digits \cup {"_", ":", "-"}
                      \/ \E j \in 1..26 : caller.resp.key[k] = UpperLetters[j]
                      \/ \E j \in 1..26 : caller.resp.key[k] = LowerLetters[j]
          /\ caller.resp.token # None => caller.resp.token = Some(caller.resp.key)
    /\ \A coll \in Collections, id \in Ids :
          store[coll][id].token # None => store[coll][id].token = Some(id)

C17_Witness ==
    /\ caller.kind = "http" /\ caller.handler = "register_apns_token"
    /\ caller.resp.wrote
    /\ caller.req.body.token.s = Pad(Upper(caller.resp.key))
    /\ caller.req.body.token.s # caller.resp.key
    /\ store["apns_tokens"][DocId("apns_tokens", caller.resp.key)].active

\* C18: when the dispatcher of one provider is run twice in a row, nothing
\* else touching the endpoint records, and every send succeeds in both runs,
\* the second run returns the count the first returned and the store is as
\* it was before the first run.
C18_TwoRunsSameCount ==
    (caller.kind = "twice" /\ caller.run = 2 /\ Done
        /\ caller.first.all_ok /\ RunSummary(cyc).all_ok)
        => (cyc.result = caller.first.result /\ store = caller.before)

C18_Witness ==
    /\ caller.kind = "twice" /\ caller.run = 2 /\ Done
    /\ caller.first.all_ok /\ RunSummary(cyc).all_ok
    /\ cyc.provider = "B" /\ cyc.result = 1 /\ caller.first.result = 1
    /\ \E id \in Ids : store["apns_tokens"][id].exists
                          /\ ~store["apns_tokens"][id].active

\* C19: in every copy, a call of send_apns_notification that posted a request
\* returns (True, "") for status 200; for any other status (False, reason)
\* with the reason field of the JSON body, or "HTTP {status}" when the body
\* is absent, has no reason field or is not JSON; and (False, text of the
\* exception) for a network-level exception.
C19_ResultIsFunctionOfOutcome ==
    (caller.kind = "sender" /\ caller.pc = "returned" /\ caller.result.posted)
        => /\ caller.h.net = "error"
                => (~caller.result.success
                    /\ caller.result.reason = ConnectErrorText)
           /\ (caller.h.net = "ok" /\ caller.h.status = 200)
                => (caller.result.success /\ caller.result.reason = EmptyText)
           /\ (caller.h.net = "ok" /\ caller.h.status # 200)
                => (~caller.result.success
                    /\ caller.result.reason =
                         IF caller.h.body = "reason" THEN caller.h.reason
                         ELSE HttpReason(caller.h.status))

\* The request carries a JSON object whose token is a string that passes the
\* handler's format validation and, for register_token, whose platform is a
\* string naming ios, android or web.
ValidRegistration(handler, body) ==
    /\ body.kind = "object"
    /\ body.token.t = "string"
    /\ IF handler = "register_apns_token"
       THEN is_valid_apns_token(Lower(Strip(body.token.s)))
       ELSE is_valid_fcm_token(Strip(body.token.s))
    /\ handler = "register_token"
         => (body.platform.t = "string"
             /\ Lower(Strip(body.platform.s)) \in Platforms)

\* C20: a registration handler answers OPTIONS with 204, any other method
\* than POST with 405, a POST with an invalid body, token or platform with
\* 400, a valid POST whose store write raises with 500; it writes a record
\* only for a valid POST, and writes none when it answers anything but 200.
C20_HandlerStatuses ==
    (caller.kind = "http" /\ caller.handler # "none")
        => /\ caller.req.method = "OPTIONS" => caller.resp.status = 204
           /\ caller.req.method \notin {"OPTIONS", "POST"}
                => caller.resp.status = 405
           /\ (caller.req.method = "POST"
               /\ ~ValidRegistration(caller.handler, caller.req.body))
                => caller.resp.status = 400
           /\ (caller.req.method = "POST"
               /\ ValidRegistration(caller.handler, caller.req.body)
               /\ ~caller.storeOk)
                => caller.resp.status = 500
           /\ caller.resp.wrote
                => (caller.req.method = "POST" /\ caller.storeOk
                    /\ ValidRegistration(caller.handler, caller.req.body))
           /\ caller.resp.status # 200 => ~caller.resp.wrote

\* The stripped lines of the document, and the places of its heading lines
\* and of its non-empty lines that are neither headings nor bullets.
C21_Lines ==
    [k \in 1..Len(SplitLines(Strip(caller.content))) |->
        Strip(SplitLines(Strip(caller.content))[k])]

C21_Headings == {k \in 1..Len(C21_Lines) : C21_Lines[k] # <<>> /\ C21_Lines[k][1] = "#"}

C21_Plain ==
    {k \in 1..Len(C21_Lines) : C21_Lines[k] # <<>> /\ C21_Lines[k][1] \notin {"#", "*"}}

\* C21: the title is the text of the first heading line whenever the document
\* has one; without a heading line it is the first non-empty line that is no
\* bullet, cut to 80 characters plus "..." when longer; without either it is
\* "Daily Engineering Briefing".
C21_TitleFromFirstHeading ==
    (caller.kind = "compose" /\ caller.pc = "done")
        => IF C21_Headings # {}
           THEN caller.title = TitleOfLines(<<C21_Lines[SortedSeq(C21_Headings)[1]]>>)
           ELSE IF C21_Plain # {}
           THEN caller.title = TitleOfLines(<<C21_Lines[SortedSeq(C21_Plain)[1]]>>)
           ELSE caller.title = DefaultTitle

\* C22: a registration of an endpoint that is already registered leaves the
\* record's registered_at as the first registration wrote it (and sets
\* active).
C22_RegisteredAtKept ==
    [][caller.kind = "clock" =>
         \A coll \in Collections, id \in Ids :
            (store[coll][id].token # None /\ store'[coll][id] # store[coll][id])
               => /\ store'[coll][id].registered_at = store[coll][id].registered_at
                  /\ (store'[coll][id].last_seen # store[coll][id].last_seen
                        => store'[coll][id].active)]_vars

\* C23: in a dispatch cycle every send attempt goes to a listed endpoint, no
\* endpoint gets more than one, a failed send is followed by the next
\* endpoint, and there are never more attempts than listed endpoints.
C23_AtMostOneSendPerEndpoint ==
    /\ Len(cyc.log) <= Len(cyc.docs)
    /\ \A k \in 1..Len(cyc.log) :
          /\ \E j \in 1..Len(cyc.docs) : cyc.docs[j].id = cyc.log[k].id
          /\ Occurrences([j \in 1..Len(cyc.log) |-> cyc.log[j].id], cyc.log[k].id) = 1

C23_Witness ==
    /\ Done /\ Len(cyc.docs) >= 2 /\ Len(cyc.log) = Len(cyc.docs)
    /\ cyc.log[1].outcome = "fail" /\ cyc.log[1].posted
    /\ ~InPermanentSet(cyc.provider, cyc.log[1].reason)
    /\ cyc.updates = <<>>

\* C24: a provider-A cycle makes exactly one access-token exchange, as its
\* first step and before the listing; the listing and every send of the cycle
\* happen under the token that exchange returned, which later steps of the
\* cycle neither replace nor exchange again; the token is the one issued by
\* this cycle's exchange, so it differs from the token of every earlier cycle;
\* a cycle whose exchange fails holds no token, lists and sends nothing and
\* returns 0, whatever token an earlier cycle had.
C24_OneFreshTokenPerCycle ==
    /\ [](cyc.provider = "A" =>
            /\ cyc.exchanges = 1
            /\ cyc.auth \in {"ok", "failed"}
            /\ (cyc.auth = "ok") <=> (cyc.token = Some(cyc.issued))
            /\ (cyc.listing # "none" \/ cyc.log # <<>>) => cyc.auth = "ok"
            /\ \A k \in 1..Len(cyc.log) : cyc.log[k].token = cyc.token
            /\ cyc.auth = "failed" =>
                  (Done /\ cyc.result = 0 /\ cyc.token = None))
    /\ [][(cyc'.provider = "A" /\ cyc.pc \in {"idle", "done"} /\ cyc' # cyc)
             => /\ cyc'.listing = "none" /\ cyc'.log = <<>>
                /\ cyc'.auth = "ok" =>
                      (cyc'.issued = cyc.issued + 1 /\ cyc'.token # cyc.token
                       /\ cyc'.token[1] > cyc.issued)]_vars
    /\ [][(cyc.provider = "A" /\ cyc.pc \notin {"idle", "done"})
             => (cyc'.auth = cyc.auth /\ cyc'.token = cyc.token
                 /\ cyc'.exchanges = cyc.exchanges
                 /\ cyc'.issued = cyc.issued)]_vars

C24_Witness ==
    /\ cyc.provider = "A" /\ Done /\ cyc.auth = "ok"
    /\ cyc.issued >= 2 /\ cyc.token = Some(cyc.issued)
    /\ Len(cyc.log) >= 2 /\ cyc.result >= 1
    /\ \A k \in 1..Len(cyc.log) : cyc.log[k].token = cyc.token

\* C25: when every send call and every store call returns or raises, a
\* dispatch cycle that has started completes and returns a count between 0
\* and the number of listed endpoints; each step of the cycle ends it, moves
\* to the next endpoint, or goes from an endpoint's send to that endpoint's
\* deactivation write, so no endpoint is visited again.
C25_CycleCompletes ==
    /\ (cyc.pc \notin {"idle", "done"})
          ~> (Done /\ ~cyc.raised /\ cyc.result \in 0..Len(cyc.docs))
    /\ [][(cyc.pc \notin {"idle", "done"} /\ cyc' # cyc)
             => \/ cyc'.pc = "done"
                \/ (cyc'.pc = "send" /\ cyc'.i = cyc.i + 1)
                \/ (cyc.pc = "send" /\ cyc'.pc = "deact" /\ cyc'.i = cyc.i)]_vars

C25_Witness ==
    /\ Done /\ cyc.provider = "B" /\ Len(cyc.docs) >= 2
    /\ Len(cyc.log) = Len(cyc.docs) /\ cyc.updates # <<>>
    /\ cyc.result \in 0..Len(cyc.docs)

\* C28: with every secret fetch succeeding, every call of
\* get_apns_credentials returns a triple whose key, key id and team id are
\* all set, also a call that runs while another call is filling the cache.
C28_ConcurrentCallsComplete ==
    caller.kind = "threads"
        => \A t \in 1..NumThreads :
              caller.th[t].pc = "done" => Complete(caller.th[t].ret)

\* C26: in send_summary_email a dispatch cycle of either provider runs only
\* after send_email has returned; an invocation for a file outside
\* summaries/*.md, or one whose send_email (or download) raised, has ended
\* without a dispatch cycle, and no step of it changes an endpoint record.
C26_PushOnlyAfterEmail ==
    /\ [](caller.kind = "send_summary_email" =>
            /\ cyc.pc # "idle" => caller.email = "ok"
            /\ caller.pc \in {"A", "B"} => caller.email = "ok"
            /\ caller.email \in {"skipped", "raised"}
                  => (caller.pc = "done" /\ cyc = IdleCycle
                      /\ caller.raised = (caller.email = "raised")))
    /\ [][(caller.kind = "send_summary_email" /\ caller'.email # "ok")
             => (store' = store /\ cyc' = IdleCycle)]_vars

C26_Witness ==
    /\ caller.kind = "send_summary_email" /\ caller.email = "raised"
    /\ caller.pc = "done" /\ cyc = IdleCycle
    /\ \E id \in Ids : store["fcm_tokens"][id].active
    /\ \E id \in Ids : store["apns_tokens"][id].active

\* C27: a registration of endpoint E that completes after the running
\* dispatch cycle has received E's permanent-failure response is not undone:
\* once the cycle has finished, E's record is active.
C27_RegistrationSurvives ==
    (caller.kind = "race" /\ Done) =>
        \A id \in caller.late :
            store[IF unit = "fcm" THEN "fcm_tokens" ELSE "apns_tokens"][id].active

\* C29: every send of a dispatch cycle goes to an endpoint whose record is
\* active at that moment: an endpoint that became inactive after the listing
\* receives no send from the cycle.
C29_NoSendToInactive ==
    [][(cyc.pc = "send" /\ Len(cyc'.log) > Len(cyc.log))
          => store[IF cyc.provider = "A" THEN "fcm_tokens" ELSE "apns_tokens"]
                  [cyc.docs[cyc.i].id].active]_vars

\* C30: the three copies of send_apns_notifications, started from the same
\* store contents and given the same credential availability and the same
\* per-endpoint provider outcomes, return the same count and leave the same
\* records deactivated.
C30_CopiesEquivalent ==
    (caller.kind = "copies"
       /\ \A copy \in Copies : caller.runs[copy].cyc.pc = "done")
    => \A a, b \in Copies :
          /\ caller.runs[a].cyc.result = caller.runs[b].cyc.result
          /\ caller.runs[a].store = caller.runs[b].store

====
